---- MODULE Spec2Model ----
(***************************************************************************)
(* The layered settings engine of config/settings: the Locked, Transient,  *)
(* User, Profile-Defaults and Hard-Defaults layers, the SettingsManager    *)
(* that composes them, and the validator that guards bulk writes.          *)
(*                                                                         *)
(* A settings value is a tagged record, so that values of different        *)
(* JavaScript types can be compared:                                       *)
(*   [k |-> "undef"]            undefined                                  *)
(*   [k |-> "null"]             null                                       *)
(*   [k |-> "bool", v |-> b]    a boolean                                  *)
(*   [k |-> "num",  v |-> n]    a number                                   *)
(*   [k |-> "str",  v |-> s]    a string                                   *)
(*   [k |-> "list", v |-> q]    an array of strings                        *)
(*   [k |-> "obj",  v |-> f]    a plain object, f a function on its keys   *)
(* A path is a sequence of keys; Dotted(path) is its dotted spelling.      *)
(***************************************************************************)
EXTENDS Integers, Sequences, FiniteSets, TLC

VARIABLES
  defaults,        \* the object settingsLayerDefaults wraps (defaultSettings)
  host,            \* os.platform(), os.arch() and the macOS version of this run
  k8sVersions,     \* UserSettingsValidator.k8sVersions
  locked,          \* settingsLayerDeploymentProfile.locked (#settings)
  profileDefaults, \* settingsLayerDeploymentProfile.defaults (#settings)
  transient,       \* SettingsLayerTransient.settings
  user,            \* SettingsLayerUser.settings (undefined until load() reads a file)
  disk,            \* the settings.json file (undefined when it does not exist)
  pc,              \* how far the load sequence of SettingsManager has got
  last             \* the operation that ran last, and what it returned

vars == <<defaults, host, k8sVersions, locked, profileDefaults, transient, user, disk, pc, last>>

----------------------------------------------------------------------------
\* Values

Undef == [k |-> "undef"]
Null == [k |-> "null"]
B(b) == [k |-> "bool", v |-> b]
N(n) == [k |-> "num", v |-> n]
S(s) == [k |-> "str", v |-> s]
L(q) == [k |-> "list", v |-> q]
O(f) == [k |-> "obj", v |-> f]
EmptyObject == O(<<>>)

\* typeof x === 'object' (true of null and of arrays)
TypeofObject(x) == x.k \in {"obj", "list", "null"}

\* lodash isObject(x), and JavaScript's (typeof x === 'object' && x)
IsObject(x) == x.k \in {"obj", "list"}

\* JavaScript truthiness, as in if (value)
Truthy(x) ==
  CASE x.k \in {"undef", "null"} -> FALSE
    [] x.k = "bool" -> x.v
    [] x.k = "num" -> x.v # 0
    [] x.k = "str" -> x.v # ""
    [] OTHER -> TRUE

Max(a, b) == IF a >= b THEN a ELSE b

\* The elements of a finite set, in some fixed order.
RECURSIVE SeqOf(_)
SeqOf(set) ==
  IF set = {} THEN <<>>
  ELSE LET x == CHOOSE y \in set : TRUE IN <<x>> \o SeqOf(set \ {x})

RECURSIVE Dotted(_)
Dotted(path) ==
  IF path = <<>> THEN ""
  ELSE IF Len(path) = 1 THEN path[1]
  ELSE path[1] \o "." \o Dotted(Tail(path))

\* `${ prefix }.${ k }`, or k alone under the root
Fqname(prefix, key) == IF prefix = "" THEN key ELSE prefix \o "." \o key

\* object[key], which is undefined for a key the object lacks and for a
\* property of a primitive; reading a property of null or undefined throws
\* and is guarded by the callers.
Prop(x, key) ==
  IF x.k = "obj" /\ key \in DOMAIN x.v THEN x.v[key]
  ELSE IF x.k = "list" /\ \E i \in 1..Len(x.v) : ToString(i - 1) = key
  THEN S(x.v[CHOOSE i \in 1..Len(x.v) : ToString(i - 1) = key])
  ELSE Undef

Put(f, key, val) == [x \in DOMAIN f \cup {key} |-> IF x = key THEN val ELSE f[x]]

Del(f, keys) == [x \in DOMAIN f \ keys |-> f[x]]

\* The keys a for...in loop (or Object.keys) visits: the keys of an object,
\* the indices of an array or of a string, nothing for null and the rest.
IndexKeys(n) == {ToString(i) : i \in 0..(n - 1)}

ForInKeys(x) ==
  CASE x.k = "obj" -> DOMAIN x.v
    [] x.k \in {"list", "str"} -> IndexKeys(Len(x.v))
    [] OTHER -> {}

----------------------------------------------------------------------------
\* lodash

\* _.get(object, path, undefined); undefined for the empty path
RECURSIVE lodashGet(_, _)
lodashGet(t, path) ==
  IF path = <<>> \/ t.k # "obj" \/ Head(path) \notin DOMAIN t.v THEN Undef
  ELSE IF Len(path) = 1 THEN t.v[Head(path)]
  ELSE lodashGet(t.v[Head(path)], Tail(path))

\* _.has(object, path): every key of the path is an own key
RECURSIVE lodashHas(_, _)
lodashHas(t, path) ==
  /\ path # <<>>
  /\ t.k = "obj"
  /\ Head(path) \in DOMAIN t.v
  /\ (Len(path) = 1 \/ lodashHas(t.v[Head(path)], Tail(path)))

\* _.set(object, path, value): an intermediate value that is not an object
\* is replaced by a new object.
RECURSIVE lodashSet(_, _, _)
lodashSet(t, path, val) ==
  LET key == Head(path)
      child == Prop(t, key)
      nested == IF child.k = "obj" THEN child ELSE EmptyObject
  IN O(Put(t.v, key, IF Len(path) = 1 THEN val ELSE lodashSet(nested, Tail(path), val)))

\* Arrays are merged index by index: the source's entries replace the
\* destination's, the destination keeps the entries past the source's end.
mergeList(dst, src) ==
  [i \in 1..Max(Len(dst), Len(src)) |-> IF i <= Len(src) THEN src[i] ELSE dst[i]]

\* _.merge(object, source), baseMerge: lodashMergeValue is the value a key
\* gets from the destination's value there (undefined if none) and the
\* source's. null and primitives are assigned, undefined is skipped, plain
\* objects are merged recursively into the destination's object (a new one
\* if the destination holds none), an array replaces anything but an array.
RECURSIVE lodashMerge(_, _)
RECURSIVE lodashMergeValue(_, _)
lodashMergeValue(objValue, srcValue) ==
  CASE srcValue.k = "undef" -> objValue
    [] srcValue.k = "obj" ->
         IF objValue.k = "list" THEN objValue
         ELSE lodashMerge(IF objValue.k = "obj" THEN objValue ELSE EmptyObject, srcValue)
    [] srcValue.k = "list" ->
         IF objValue.k = "list" THEN L(mergeList(objValue.v, srcValue.v)) ELSE srcValue
    [] OTHER -> srcValue

\* An array source gives its entries under its index keys.  (A falsy source
\* is skipped.  A string source would add its characters under index keys,
\* which no schema path reads: they are left out.)
lodashMerge(object, source) ==
  IF ~IsObject(source) THEN object
  ELSE O([x \in DOMAIN object.v \cup ForInKeys(source) |->
            IF x \in ForInKeys(source)
            THEN lodashMergeValue(Prop(object, x), Prop(source, x))
            ELSE object.v[x]])

----------------------------------------------------------------------------
\* The schema: defaultSettings and defaultTransientSettings, cut down to the
\* fields below (one of each kind of leaf and of each kind of rule).

VMTypeQEMU == "qemu"
VMTypeVZ == "vz"
MountTypeNINEP == "9p"
MountTypeREVERSE_SSHFS == "reverse-sshfs"
MountTypeVIRTIOFS == "virtiofs"

defaultSettings ==
  O([containerEngine |->
       O([allowedImages |-> O([enabled |-> B(FALSE), patterns |-> L(<<>>)]),
          name |-> S("moby")]),
     kubernetes |->
       O([version |-> S(""), port |-> N(6443), enabled |-> B(TRUE)]),
     diagnostics |->
       O([showMuted |-> B(FALSE), mutedChecks |-> EmptyObject]),
     experimental |->
       O([virtualMachine |->
            O([type |-> S(VMTypeQEMU),
               useRosetta |-> B(FALSE),
               mount |-> O([type |-> S(MountTypeREVERSE_SSHFS)])])])])

navItemNames == {"Application", "WSL", "Virtual Machine", "Container Engine", "Kubernetes"}

defaultTransientSettings ==
  O([application |-> O([debug |-> Undef, isFirstRun |-> B(FALSE)]),
     noModalDialogs |-> B(FALSE),
     preferences |-> O([navItem |-> O([current |-> S("Application")])])])

\* settingsLayerDefaults.get(path): the Hard-Defaults layer's get of the
\* SettingsLayer interface, a lookup in defaultSettings.
DefaultsGet(path) == lodashGet(defaultSettings, path)

\* The Hard-Defaults layer's getSnapshot(): the defaults as a whole.
DefaultsGetSnapshot == defaultSettings

CURRENT_SETTINGS_VERSION == 10

----------------------------------------------------------------------------
\* ValidatorReturn (types.ts).  threw marks a call that ended in a thrown
\* TypeError instead of returning.

NewValidatorReturn == [modified |-> FALSE, errors |-> <<>>, fatal |-> FALSE, threw |-> FALSE]

Thrown == [modified |-> FALSE, errors |-> <<>>, fatal |-> FALSE, threw |-> TRUE]

\* ValidatorReturn.merge
ValidatorReturnMerge(into, from) ==
  IF into.threw \/ from.threw THEN Thrown
  ELSE [modified |-> into.modified \/ from.modified,
        errors |-> into.errors \o from.errors,
        fatal |-> into.fatal \/ from.fatal,
        threw |-> FALSE]

\* An error message, kept as its wording's kind and the field it names.
Err(kind, fqname) == [kind |-> kind, fqname |-> fqname]

Modified == [NewValidatorReturn EXCEPT !.modified = TRUE]

Rejected(kind, fqname) == [NewValidatorReturn EXCEPT !.errors = <<Err(kind, fqname)>>]

RejectedFatal(kind, fqname) ==
  [NewValidatorReturn EXCEPT !.errors = <<Err(kind, fqname)>>, !.fatal = TRUE]

\* notSupported(fqname): `Changing field "..." via the API isn't supported.`
notSupported(fqname) == Err("notSupported", fqname)

\* invalidSettingMessage(fqname, desiredValue): `Invalid value for "...": <...>`
invalidSettingMessage(fqname) == Err("invalid", fqname)

----------------------------------------------------------------------------
\* The leaf rules of BaseValidator, UserSettingsValidator and
\* TransientSettingsValidator.

checkBoolean(desiredValue, fqname) ==
  IF desiredValue.k # "bool" THEN Rejected("invalid", fqname) ELSE Modified

checkNumber(min, max, desiredValue, fqname) ==
  IF desiredValue.k # "num" THEN Rejected("invalid", fqname)
  ELSE IF desiredValue.v < min \/ desiredValue.v > max THEN Rejected("invalid", fqname)
  ELSE Modified

\* checkEnum with its rejection left non-fatal.
checkEnumNotFatal(validValues, desiredValue, fqname) ==
  IF desiredValue.k # "str" THEN Rejected("invalid", fqname)
  ELSE IF desiredValue.v \notin validValues THEN Rejected("invalid", fqname)
  ELSE Modified

checkEnum(validValues, desiredValue, fqname) ==
  IF desiredValue.k # "str" THEN Rejected("invalid", fqname)
  ELSE IF desiredValue.v \notin validValues THEN RejectedFatal("invalid", fqname)
  ELSE Modified

checkString(desiredValue, fqname) ==
  IF desiredValue.k # "str" THEN Rejected("invalid", fqname) ELSE Modified

checkUnchanged(fqname) == Rejected("notSupported", fqname)

\* mergedSettings.a.b.c throws when a or a.b is null or undefined
ReadThrows(t, path) ==
  \E i \in 1..(Len(path) - 1) : lodashGet(t, SubSeq(path, 1, i)).k \in {"undef", "null"}

VMTypePath == <<"experimental", "virtualMachine", "type">>
MountTypePath == <<"experimental", "virtualMachine", "mount", "type">>

\* Electron.app.runningUnderARM64Translation is false outside a translated
\* process, the only case modelled.
checkRosetta(h, mergedSettings, currentValue, desiredValue, fqname) ==
  IF Truthy(desiredValue) /\ ~Truthy(currentValue)
  THEN IF ReadThrows(mergedSettings, VMTypePath) THEN Thrown
       ELSE IF lodashGet(mergedSettings, VMTypePath) # S(VMTypeVZ)
            THEN RejectedFatal("rosettaNeedsVZ", fqname)
       ELSE IF h.arch # "arm64" THEN RejectedFatal("rosettaNeedsARM", fqname)
       ELSE Modified
  ELSE Modified

\* macOS versions are major * 100 + minor: 13.3 is 1303.
MacOS_13_3 == 1303
MacOS_13_0 == 1300

\* A rule for the VM type that accepts every mount type.
checkVMTypeAnyMount(h, mergedSettings, desiredValue, fqname) == Modified

checkVMType(h, mergedSettings, desiredValue, fqname) ==
  IF desiredValue = S(VMTypeVZ)
  THEN IF h.arch = "arm64" /\ MacOS_13_3 > h.macOS THEN RejectedFatal("vzNeedsVentura", fqname)
       ELSE IF MacOS_13_0 > h.macOS THEN RejectedFatal("vzNeedsVentura", fqname)
       ELSE IF ReadThrows(mergedSettings, MountTypePath) THEN Thrown
       ELSE IF lodashGet(mergedSettings, MountTypePath) = S(MountTypeNINEP)
            THEN Rejected("vzMountType", fqname)
       ELSE Modified
  ELSE IF desiredValue = S(VMTypeQEMU)
  THEN IF ReadThrows(mergedSettings, MountTypePath) THEN Thrown
       ELSE IF lodashGet(mergedSettings, MountTypePath) = S(MountTypeVIRTIOFS) /\ h.platform = "darwin"
            THEN Rejected("qemuMountType", fqname)
       ELSE Modified
  ELSE Modified

checkMountType(h, mergedSettings, desiredValue, fqname) ==
  IF ReadThrows(mergedSettings, VMTypePath) THEN Thrown
  ELSE LET type == lodashGet(mergedSettings, VMTypePath) IN
       IF \/ desiredValue = S(MountTypeVIRTIOFS) /\ type # S(VMTypeVZ) /\ h.platform = "darwin"
          \/ desiredValue = S(MountTypeVIRTIOFS) /\ type # S(VMTypeQEMU) /\ h.platform = "linux"
          \/ desiredValue = S(MountTypeNINEP) /\ type # S(VMTypeQEMU)
       THEN Rejected("mountTypeVMType", fqname)
       ELSE Modified

checkKubernetesVersion(versions, mergedSettings, desiredVersion) ==
  IF ReadThrows(mergedSettings, <<"kubernetes", "enabled">>) THEN Thrown
  ELSE IF ~Truthy(lodashGet(mergedSettings, <<"kubernetes", "enabled">>)) /\ desiredVersion = S("")
  THEN Modified
  ELSE IF versions = {} THEN Modified
  ELSE IF ~(desiredVersion.k = "str" /\ desiredVersion.v \in versions)
  THEN Rejected("k8sVersionNotFound", "kubernetes.version")
  ELSE Modified

\* Object.keys(currentValue), k in desiredValue and Object.entries(desiredValue)
\* throw on null and undefined.
checkBooleanMapping(currentValue, desiredValue, fqname) ==
  IF ~TypeofObject(desiredValue) THEN Rejected("shouldBeObject", fqname)
  ELSE IF currentValue.k \in {"undef", "null"} \/ desiredValue.k = "null" THEN Thrown
  ELSE LET keys == SeqOf(ForInKeys(desiredValue))
           entry(key) == Prop(desiredValue, key)
           bad == SelectSeq(keys, LAMBDA key : entry(key).k \notin {"bool", "null"})
           errors == [i \in 1..Len(bad) |-> invalidSettingMessage(Fqname(fqname, bad[i]))]
           changed == \/ \E key \in ForInKeys(currentValue) : key \notin ForInKeys(desiredValue)
                      \/ \E key \in ForInKeys(desiredValue) :
                           entry(key).k \in {"bool", "null"} /\ Prop(currentValue, key) # entry(key)
       IN [NewValidatorReturn EXCEPT !.errors = errors, !.modified = errors = <<>> /\ changed]

\* /^\s*$/ over the strings that occur as list members
isWhiteSpaceRE(member) == member \in {"", " ", "  "}

\* findDuplicates without the step that forgets a single whitespace member.
findDuplicatesKeepingWhiteSpace(list) ==
  LET whiteSpaceMembers == SelectSeq(list, isWhiteSpaceRE)
      others == SelectSeq(list, LAMBDA member : ~isWhiteSpaceRE(member))
      repeats(i) == \E j \in 1..(i - 1) : others[j] = others[i]
      firstRepeat(i) == repeats(i) /\ ~\E j \in 1..(i - 1) : repeats(j) /\ others[j] = others[i]
      at == SelectSeq([i \in 1..Len(others) |-> i], firstRepeat)
      duplicates == [n \in 1..Len(at) |-> others[at[n]]]
  IN duplicates \o whiteSpaceMembers

findDuplicates(list) ==
  LET whiteSpaceMembers == SelectSeq(list, isWhiteSpaceRE)
      others == SelectSeq(list, LAMBDA member : ~isWhiteSpaceRE(member))
      repeats(i) == \E j \in 1..(i - 1) : others[j] = others[i]
      firstRepeat(i) == repeats(i) /\ ~\E j \in 1..(i - 1) : repeats(j) /\ others[j] = others[i]
      at == SelectSeq([i \in 1..Len(others) |-> i], firstRepeat)
      duplicates == [n \in 1..Len(at) |-> others[at[n]]]
  IN duplicates \o (IF Len(whiteSpaceMembers) = 1 THEN <<>> ELSE whiteSpaceMembers)

\* currentValue.length and currentValue.some throw on a current value that
\* is null or undefined, and on a string of the desired length.
checkUniqueStringArray(currentValue, desiredValue, fqname) ==
  IF desiredValue.k # "list" THEN Rejected("invalid", fqname)
  ELSE IF findDuplicates(desiredValue.v) # <<>> THEN Rejected("duplicates", fqname)
  ELSE IF currentValue.k \in {"undef", "null"} THEN Thrown
  ELSE IF currentValue.k = "str" /\ Len(currentValue.v) = Len(desiredValue.v) THEN Thrown
  ELSE [NewValidatorReturn EXCEPT !.modified = currentValue # desiredValue]

checkPreferencesNavItemCurrent(currentValue, desiredValue, fqname) ==
  IF ~Truthy(desiredValue) \/ desiredValue.k # "str" \/ desiredValue.v \notin navItemNames
  THEN Rejected("notAPageName", fqname)
  ELSE [NewValidatorReturn EXCEPT !.modified = currentValue # desiredValue]

----------------------------------------------------------------------------
\* Rule maps.  A validator function is the value [k |-> "fn", v |-> rule];
\* a rule that wraps others (checkLima, checkPlatform, checkMulti) holds them.

Fn(rule) == [k |-> "fn", v |-> rule]

\* validator.call(this, mergedSettings, currentValue, desiredValue, fqname)
RECURSIVE Call(_, _, _, _, _, _, _)
RECURSIVE checkMulti(_, _, _, _, _, _, _)
Call(validator, h, versions, mergedSettings, currentValue, desiredValue, fqname) ==
  CASE validator.name = "checkBoolean" -> checkBoolean(desiredValue, fqname)
    [] validator.name = "checkNumber" -> checkNumber(validator.min, validator.max, desiredValue, fqname)
    [] validator.name = "checkEnum" -> checkEnum(validator.validValues, desiredValue, fqname)
    [] validator.name = "checkString" -> checkString(desiredValue, fqname)
    [] validator.name = "checkUnchanged" -> checkUnchanged(fqname)
    [] validator.name = "checkLima" ->
         IF h.platform \notin {"darwin", "linux"} THEN RejectedFatal("notSupported", fqname)
         ELSE Call(validator.validator, h, versions, mergedSettings, currentValue, desiredValue, fqname)
    [] validator.name = "checkPlatform" ->
         IF h.platform # validator.platform THEN RejectedFatal("notSupported", fqname)
         ELSE Call(validator.validator, h, versions, mergedSettings, currentValue, desiredValue, fqname)
    [] validator.name = "checkMulti" ->
         checkMulti(validator.validators, h, versions, mergedSettings, currentValue, desiredValue, fqname)
    [] validator.name = "checkRosetta" -> checkRosetta(h, mergedSettings, currentValue, desiredValue, fqname)
    [] validator.name = "checkVMType" -> checkVMType(h, mergedSettings, desiredValue, fqname)
    [] validator.name = "checkMountType" -> checkMountType(h, mergedSettings, desiredValue, fqname)
    [] validator.name = "checkKubernetesVersion" -> checkKubernetesVersion(versions, mergedSettings, desiredValue)
    [] validator.name = "checkBooleanMapping" -> checkBooleanMapping(currentValue, desiredValue, fqname)
    [] validator.name = "checkUniqueStringArray" -> checkUniqueStringArray(currentValue, desiredValue, fqname)
    [] validator.name = "checkPreferencesNavItemCurrent" ->
         checkPreferencesNavItemCurrent(currentValue, desiredValue, fqname)

checkMulti(validators, h, versions, mergedSettings, currentValue, desiredValue, fqname) ==
  IF validators = <<>> THEN NewValidatorReturn
  ELSE ValidatorReturnMerge(
         Call(Head(validators), h, versions, mergedSettings, currentValue, desiredValue, fqname),
         checkMulti(Tail(validators), h, versions, mergedSettings, currentValue, desiredValue, fqname))

Rule(name) == Fn([name |-> name])

checkLimaRule(validator) == Fn([name |-> "checkLima", validator |-> validator.v])

checkPlatformRule(platform, validator) ==
  Fn([name |-> "checkPlatform", platform |-> platform, validator |-> validator.v])

checkMultiRule(first, second) == Fn([name |-> "checkMulti", validators |-> <<first.v, second.v>>])

checkEnumRule(validValues) == Fn([name |-> "checkEnum", validValues |-> validValues])

checkNumberRule(min, max) == Fn([name |-> "checkNumber", min |-> min, max |-> max])

\* UserSettingsValidator.allowedSettings, for the fields of defaultSettings
allowedSettings ==
  O([containerEngine |->
       O([allowedImages |->
            O([enabled |-> Rule("checkBoolean"), patterns |-> Rule("checkUniqueStringArray")]),
          name |-> checkEnumRule({"containerd", "moby", "docker"})]),
     experimental |->
       O([virtualMachine |->
            O([mount |->
                 O([type |-> checkLimaRule(checkMultiRule(
                      checkEnumRule({MountTypeNINEP, MountTypeREVERSE_SSHFS, MountTypeVIRTIOFS}),
                      Rule("checkMountType")))]),
               useRosetta |-> checkPlatformRule("darwin", Rule("checkRosetta")),
               type |-> checkPlatformRule("darwin", checkMultiRule(
                      checkEnumRule({VMTypeQEMU, VMTypeVZ}), Rule("checkVMType")))])]),
     kubernetes |->
       O([version |-> Rule("checkKubernetesVersion"),
          port |-> checkNumberRule(1, 65535),
          enabled |-> Rule("checkBoolean")]),
     diagnostics |->
       O([mutedChecks |-> Rule("checkBooleanMapping"), showMuted |-> Rule("checkBoolean")])])

\* TransientSettingsValidator.allowedTransientSettings
allowedTransientSettings ==
  O([application |-> O([debug |-> Rule("checkUnchanged"), isFirstRun |-> Rule("checkUnchanged")]),
     noModalDialogs |-> Rule("checkBoolean"),
     preferences |-> O([navItem |-> O([current |-> Rule("checkPreferencesNavItemCurrent")])])])

----------------------------------------------------------------------------
\* BaseValidator.checkProposedSettings

\* The loop's result returned as it is, errors or not.
ModifiedKept(retval) == retval

\* retval.modified &&= retval.errors.length === 0
ModifiedOnlyWithoutErrors(retval) ==
  [retval EXCEPT !.modified = retval.modified /\ retval.errors = <<>>]

\* One turn of the loop over the keys of newSettings.  currentSettings[k]
\* throws when currentSettings is null or undefined.
RECURSIVE checkProposedSettings(_, _, _, _, _, _, _)
checkProposedKey(h, versions, mergedSettings, allowed, currentSettings, newSettings, prefix, key) ==
  LET fqname == Fqname(prefix, key)
      rule == allowed.v[key]
      desired == Prop(newSettings, key)
      validate ==
        IF currentSettings.k \in {"undef", "null"} THEN Thrown
        ELSE IF Prop(currentSettings, key) # desired
        THEN Call(rule.v, h, versions, mergedSettings, Prop(currentSettings, key), desired, fqname)
        ELSE NewValidatorReturn
  IN IF key \notin DOMAIN allowed.v THEN Rejected("notSupported", fqname)
     ELSE IF rule.k = "obj"
     THEN IF TypeofObject(desired)
          THEN IF currentSettings.k \in {"undef", "null"} THEN Thrown
               ELSE checkProposedSettings(h, versions, mergedSettings, rule,
                                          Prop(currentSettings, key), desired, fqname)
          ELSE Rejected("shouldWrapObject", fqname)
     ELSE IF TypeofObject(desired)
     THEN IF rule.k = "fn" THEN validate ELSE Rejected("shouldBeSimple", fqname)
     ELSE IF rule.k = "fn" THEN validate
     ELSE Rejected("notSupported", fqname)

RECURSIVE checkProposedKeys(_, _, _, _, _, _, _, _)
checkProposedKeys(h, versions, mergedSettings, allowed, currentSettings, newSettings, prefix, keys) ==
  IF keys = <<>> THEN NewValidatorReturn
  ELSE ValidatorReturnMerge(
         checkProposedKey(h, versions, mergedSettings, allowed, currentSettings, newSettings,
                          prefix, Head(keys)),
         checkProposedKeys(h, versions, mergedSettings, allowed, currentSettings, newSettings,
                           prefix, Tail(keys)))

checkProposedSettings(h, versions, mergedSettings, allowed, currentSettings, newSettings, prefix) ==
  LET retval == checkProposedKeys(h, versions, mergedSettings, allowed, currentSettings,
                                  newSettings, prefix, SeqOf(ForInKeys(newSettings)))
  IN IF retval.threw THEN retval ELSE ModifiedOnlyWithoutErrors(retval)

----------------------------------------------------------------------------
\* UserSettingsValidator.canonicalizeSynonyms: the proposal as the in-place
\* rewriting leaves it.

\* /^(v?)(\d+\.\d+\.\d+)((?:\+k3s\d+)?)$/ over the version strings that
\* occur: the match's groups 1, 2 and 3.
ptn ==
  [x \in {"1.23.4", "v1.23.4", "1.23.4+k3s1", "v1.23.4+k3s1"} |->
     CASE x = "1.23.4" -> <<"", "1.23.4", "">>
       [] x = "v1.23.4" -> <<"v", "1.23.4", "">>
       [] x = "1.23.4+k3s1" -> <<"", "1.23.4", "+k3s1">>
       [] x = "v1.23.4+k3s1" -> <<"v", "1.23.4", "+k3s1">>]

canonicalizeKubernetesVersion(desiredValue) ==
  IF desiredValue.k = "str" /\ desiredValue.v \in DOMAIN ptn
  THEN LET m == ptn[desiredValue.v] IN
       IF m[1] # "" \/ m[3] # "" THEN S(m[2]) ELSE desiredValue
  ELSE desiredValue

\* The engine name left as it was proposed.
canonicalizeContainerEngineKept(desiredValue) == desiredValue

canonicalizeContainerEngine(desiredValue) ==
  IF desiredValue = S("docker") THEN S("moby") ELSE desiredValue

canonicalizeBool(desiredValue) ==
  IF desiredValue = S("true") THEN B(TRUE)
  ELSE IF desiredValue = S("false") THEN B(FALSE)
  ELSE desiredValue

\* parseInt(desiredValue, 10) over the strings that occur; NaN for the rest
parseInt == [x \in {"6444", "0"} |-> IF x = "6444" THEN 6444 ELSE 0]

canonicalizeNumber(desiredValue) ==
  IF desiredValue.k = "str" /\ desiredValue.v \in DOMAIN parseInt
  THEN N(parseInt[desiredValue.v])
  ELSE desiredValue

synonymsTable ==
  O([containerEngine |-> O([name |-> Rule("canonicalizeContainerEngine")]),
     kubernetes |-> O([version |-> Rule("canonicalizeKubernetesVersion")])])

RECURSIVE canonicalizeSettings(_, _, _)
canonicalizeSettings(synonyms, newSettings, prefix) ==
  IF newSettings.k # "obj" THEN newSettings
  ELSE O([key \in DOMAIN newSettings.v |->
            LET value == newSettings.v[key]
                synonym == IF synonyms.k = "obj" THEN Prop(synonyms, key) ELSE Undef
                default == DefaultsGet(Append(prefix, key))
            IN IF TypeofObject(value)
               THEN canonicalizeSettings(IF synonym.k \in {"undef", "null"} THEN EmptyObject ELSE synonym,
                                         value, Append(prefix, key))
               ELSE IF synonym.k = "fn"
               THEN IF synonym.v.name = "canonicalizeContainerEngine"
                    THEN canonicalizeContainerEngine(value)
                    ELSE canonicalizeKubernetesVersion(value)
               ELSE IF default.k = "bool" THEN canonicalizeBool(value)
               ELSE IF default.k = "num" THEN canonicalizeNumber(value)
               ELSE value])

canonicalizeSynonyms(newSettings) == canonicalizeSettings(synonymsTable, newSettings, <<>>)

\* UserSettingsValidator.validateSettings
validateSettings(h, versions, currentSettings, newSettings) ==
  LET canonical == canonicalizeSynonyms(newSettings) IN
  checkProposedSettings(h, versions,
                        lodashMerge(lodashMerge(EmptyObject, currentSettings), canonical),
                        allowedSettings, currentSettings, canonical, "")

\* TransientSettingsValidator.validateSettings
validateTransientSettings(h, versions, currentSettings, newSettings) ==
  checkProposedSettings(h, versions,
                        lodashMerge(lodashMerge(EmptyObject, currentSettings), newSettings),
                        allowedTransientSettings, currentSettings, newSettings, "")

----------------------------------------------------------------------------
\* Migration (migrate.ts)

\* What a call leaves in place of a tree when it throws a TypeError.
Threw == [k |-> "throw"]

\* delete parent[leafPath], then the loop that deletes the parents left
\* empty: it reads the next parent with _.get, which gives undefined for the
\* empty path, so that emptying a top-level key ends in a TypeError.
RECURSIVE DeleteLeaf(_, _, _)
DeleteLeaf(settings, parentPath, leafPath) ==
  LET parent == O(Del(lodashGet(settings, parentPath).v, {leafPath}))
      after == lodashSet(settings, parentPath, parent)
  IN IF DOMAIN parent.v # {}
     THEN after
     ELSE IF Len(parentPath) = 1 THEN Threw
     ELSE DeleteLeaf(after, SubSeq(parentPath, 1, Len(parentPath) - 1), parentPath[Len(parentPath)])

\* The constant DELETE, given as newKey to delete without migrating.
DELETE == <<"Symbol(delete)">>

\* x => !x
Negated(x) == B(~Truthy(x))

PathManagementStrategyRcFiles == "rcfiles"

\* The convert function of updateTable[7], on a platform other than win32.
NotSetToRcFiles(oldValue) ==
  IF oldValue # S("notset") THEN oldValue ELSE S(PathManagementStrategyRcFiles)

\* entry.trim() for the entries of the documents.
Trim(entry) ==
  CASE entry = " a " -> "a"
    [] entry = " " -> ""
    [] OTHER -> entry

\* The convert function of updateTable[9]: the body computes the trimmed
\* entries that are not empty and returns nothing.
TrimNoproxy(oldValue) ==
  LET trimmed == [i \in 1..Len(oldValue.v) |-> Trim(oldValue.v[i])]
      filtered == SelectSeq(trimmed, LAMBDA entry : entry # "")
  IN Undef

\* The call convert?.(value): convert names the function given to migrate,
\* "undefined" when there is none.
ConvertCall(convert, value) ==
  CASE convert = "Negated" -> Negated(value)
    [] convert = "NotSetToRcFiles" -> NotSetToRcFiles(value)
    [] convert = "TrimNoproxy" -> TrimNoproxy(value)
    [] OTHER -> Undef

\* convert?.(value) ?? value
Converted(convert, value) ==
  IF ConvertCall(convert, value) \in {Undef, Null} THEN value ELSE ConvertCall(convert, value)

\* migrate(settings, oldKey, newKey, convert): for a key of one segment
\* parentPath is empty and _.get(settings, []) is undefined, so that nothing
\* is migrated.
migrateConvert(settings, oldKey, newKey, convert) ==
  LET parentPath == SubSeq(oldKey, 1, Len(oldKey) - 1)
      leafPath == oldKey[Len(oldKey)]
      parent == lodashGet(settings, parentPath)
      moved == IF newKey # DELETE
               THEN lodashSet(settings, newKey, Converted(convert, parent.v[leafPath]))
               ELSE settings
  IN IF settings = Threw THEN Threw
     ELSE IF parent.k # "obj" \/ leafPath \notin DOMAIN parent.v THEN settings
     ELSE IF oldKey = newKey THEN moved
     ELSE DeleteLeaf(moved, parentPath, leafPath)

\* A call of migrate without a convert function
NoConvert == "undefined"

\* migrate(settings, oldKey, newKey) without a convert function
migrate(settings, oldKey, newKey) == migrateConvert(settings, oldKey, newKey, NoConvert)

\* The migrate calls of a step, one after the other.
RECURSIVE migrateAll(_, _)
migrateAll(settings, moves) ==
  IF moves = <<>> THEN settings
  ELSE migrateAll(migrate(settings, moves[1][1], moves[1][2]), Tail(moves))

\* image.split(':', 2) for the extension images of the documents.
ImageSplit(image) ==
  CASE image = "ext:1.0" -> <<"ext", "1.0">>
    [] image = "off:2" -> <<"off", "2">>
    [] OTHER -> <<image>>

\* image.split(':', 2).concat('latest').slice(0, 2)
ImageAndTag(image) == SubSeq(ImageSplit(image) \o <<"latest">>, 1, 2)

\* updateTable[6]: settings.extensions becomes the mapping from image to tag
\* of the entries whose value is truthy, an empty mapping when there are none.
RekeyExtensions(settings) ==
  LET extensions == IF Prop(settings, "extensions").k = "obj"
                    THEN Prop(settings, "extensions").v ELSE <<>>
      withTags == {image \in DOMAIN extensions : Truthy(extensions[image])}
      names == {ImageAndTag(image)[1] : image \in withTags}
  IN O(Put(settings.v, "extensions",
           O([name \in names |->
                S(ImageAndTag(CHOOSE image \in withTags : ImageAndTag(image)[1] = name)[2])])))

\* updateTable[version](settings); versions 0, 2 and 3 have no step or an
\* empty one.
updateTable(version, settings) ==
  CASE version = 1 -> migrate(settings, <<"kubernetes", "rancherMode">>, DELETE)
    [] version = 4 ->
         migrateAll(
           migrateConvert(settings, <<"kubernetes", "suppressSudo">>,
                          <<"application", "adminAccess">>, "Negated"),
           << <<<<"debug">>, <<"application", "debug">>>>,
              <<<<"pathManagementStrategy">>, <<"application", "pathManagementStrategy">>>>,
              <<<<"telemetry">>, <<"application", "telemetry", "enabled">>>>,
              <<<<"updater">>, <<"application", "updater", "enabled">>>>,
              <<<<"kubernetes", "hostResolver">>, <<"virtualMachine", "hostResolver">>>>,
              <<<<"kubernetes", "memoryInGB">>, <<"virtualMachine", "memoryInGB">>>>,
              <<<<"kubernetes", "numberCPUs">>, <<"virtualMachine", "numberCPUs">>>>,
              <<<<"kubernetes", "experimental", "socketVMNet">>,
                <<"experimental", "virtualMachine", "socketVMNet">>>>,
              <<<<"kubernetes", "WSLIntegrations">>, <<"WSL", "integrations">>>>,
              <<<<"kubernetes", "containerEngine">>, <<"containerEngine", "name">>>> >>)
    [] version = 5 ->
         migrateAll(settings,
           << <<<<"containerEngine", "imageAllowList">>, <<"containerEngine", "allowedImages">>>>,
              <<<<"virtualMachine", "experimental", "socketVMNet">>,
                <<"experimental", "virtualMachine", "socketVMNet">>>>,
              <<<<"autoStart">>, <<"application", "autoStart">>>>,
              <<<<"hideNotificationIcon">>, <<"application", "hideNotificationIcon">>>>,
              <<<<"startInBackground">>, <<"application", "startInBackground">>>>,
              <<<<"window">>, <<"application", "window">>>> >>)
    [] version = 6 -> RekeyExtensions(settings)
    [] version = 7 ->
         migrateConvert(settings, <<"application", "pathManagementStrategy">>,
                        <<"application", "pathManagementStrategy">>, "NotSetToRcFiles")
    [] version = 8 -> migrate(settings, <<"extensions">>, <<"application", "extensions", "instaled">>)
    [] version = 9 ->
         migrateConvert(settings, <<"experimental", "virtualMachine", "proxy", "noproxy">>,
                        <<"experimental", "virtualMachine", "proxy", "noproxy">>, "TrimNoproxy")
    [] OTHER -> settings

RECURSIVE MigrateFrom(_, _)
MigrateFrom(settings, currentVersion) ==
  IF settings # Threw /\ currentVersion < CURRENT_SETTINGS_VERSION
  THEN MigrateFrom(updateTable(currentVersion, settings), currentVersion + 1)
  ELSE settings

\* A version that is not a number compares false with the current one, so
\* no step runs.
migrateSettings(settings) ==
  LET version == Prop(settings, "version")
      migrated == IF version.k = "num" THEN MigrateFrom(settings, version.v) ELSE settings
  IN IF migrated = Threw THEN Threw
     ELSE O(Put(migrated.v, "version", N(CURRENT_SETTINGS_VERSION)))

----------------------------------------------------------------------------
\* Layers.  A layer operation gives the layer's tree after the call, what
\* the call returned and the error it threw ("" if none).

NotLoaded == "Cannot set user settings before loading"

Outcome(settings, ret, error) == [settings |-> settings, ret |-> ret, error |-> error]

\* this.settings ?? {}
OrEmpty(settings) == IF settings = Undef THEN EmptyObject ELSE settings

\* SettingsLayerDeploymentProfile.get
ProfileGet(settings, key) == lodashGet(OrEmpty(settings), key)

\* SettingsLayerDeploymentProfile.getSnapshot
ProfileGetSnapshot(settings) == OrEmpty(settings)

\* SettingsLayerTransient.get
TransientGet(settings, key) == lodashGet(settings, key)

\* SettingsLayerTransient.set
TransientSet(settings, key, value) ==
  IF lodashHas(defaultTransientSettings, key)
  THEN Outcome(lodashSet(settings, key, value), B(TRUE), "")
  ELSE Outcome(settings, B(FALSE), "")

\* SettingsLayerTransient.merge
TransientMerge(h, versions, settings, changes) ==
  LET validatorReturn == validateTransientSettings(h, versions, settings, changes) IN
  IF validatorReturn.threw THEN Outcome(settings, validatorReturn, "TypeError")
  ELSE IF validatorReturn.errors # <<>> THEN Outcome(settings, validatorReturn, "")
  ELSE Outcome(lodashMerge(settings, changes), validatorReturn, "")

\* SettingsLayerUser.get
UserGet(settings, key) == lodashGet(OrEmpty(settings), key)

\* SettingsLayerUser.getAll
UserGetAll(settings) == OrEmpty(settings)

\* SettingsLayerUser.set
UserSet(settings, key, value) ==
  IF settings = Undef THEN Outcome(settings, Undef, NotLoaded)
  ELSE IF lodashHas(defaultSettings, key)
  THEN Outcome(lodashSet(settings, key, value), B(TRUE), "")
  ELSE Outcome(settings, B(FALSE), "")

\* _.mergeWith(this.settings, changes, customizer).  The customizer runs for
\* every key below the root: an array of primitives is replaced by the
\* source value; the keys an object source holds null under are deleted from
\* it and from the destination's object, and the rest is merged as _.merge
\* does.  A source value that is not an object is assigned, null included.
RECURSIVE mergeWithCustomizer(_, _)
customizedValue(objValue, srcValue) ==
  CASE srcValue.k = "undef" -> objValue
    [] srcValue.k = "list" -> srcValue
    [] srcValue.k = "obj" ->
         IF objValue.k = "list" THEN srcValue
         ELSE LET deleted == {key \in DOMAIN srcValue.v : srcValue.v[key].k \in {"undef", "null"}}
                  kept == O(Del(srcValue.v, deleted))
              IN mergeWithCustomizer(
                   IF objValue.k = "obj" THEN O(Del(objValue.v, deleted)) ELSE EmptyObject, kept)
    [] OTHER -> srcValue

mergeWithCustomizer(object, source) ==
  IF source.k # "obj" THEN object
  ELSE O([x \in DOMAIN object.v \cup DOMAIN source.v |->
            IF x \in DOMAIN source.v
            THEN customizedValue(Prop(object, x), source.v[x])
            ELSE object.v[x]])

\* A merge that applies the changes whatever the validator returned.
UserMergeUnguarded(h, versions, settings, changes) ==
  IF settings = Undef THEN Outcome(settings, Undef, NotLoaded)
  ELSE LET validationResult == validateSettings(h, versions, lodashMerge(lodashMerge(EmptyObject, defaultSettings), settings), changes)
       IN IF validationResult.threw THEN Outcome(settings, validationResult, "TypeError")
          ELSE Outcome(mergeWithCustomizer(settings, canonicalizeSynonyms(changes)),
                       validationResult, "")

\* SettingsLayerUser.merge; validateSettings rewrites changes in place, so
\* the canonical proposal is what gets merged.
UserMerge(h, versions, settings, changes) ==
  IF settings = Undef THEN Outcome(settings, Undef, NotLoaded)
  ELSE LET validationResult ==
             validateSettings(h, versions,
                              lodashMerge(lodashMerge(EmptyObject, defaultSettings), settings),
                              changes)
       IN IF validationResult.threw THEN Outcome(settings, validationResult, "TypeError")
          ELSE IF validationResult.errors # <<>> THEN Outcome(settings, validationResult, "")
          ELSE Outcome(mergeWithCustomizer(settings, canonicalizeSynonyms(changes)),
                       validationResult, "")

\* JSON.stringify(this.settings ?? {}) as JSON.parse reads it back: a key
\* whose value is undefined is not written.
RECURSIVE JSONStringify(_)
JSONStringify(value) ==
  IF value.k # "obj" THEN value
  ELSE LET written == {key \in DOMAIN value.v : value.v[key] # Undef}
       IN O([key \in written |-> JSONStringify(value.v[key])])

\* SettingsLayerUser.save: the document written
UserSave(settings) == JSONStringify(OrEmpty(settings))

\* SettingsLayerUser.load: what the User and the Transient layers hold once
\* it is over.  file is the parsed settings.json, undefined under ENOENT.
UserLoad(file, transientSettings) ==
  IF file # Undef
  THEN IF migrateSettings(file) = Threw
       THEN [user |-> Undef, transient |-> transientSettings, error |-> "TypeError"]
       ELSE [user |-> migrateSettings(file), transient |-> transientSettings, error |-> ""]
  ELSE [user |-> Undef,
        transient |-> TransientSet(transientSettings, <<"application", "isFirstRun">>, B(TRUE)).settings,
        error |-> ""]

----------------------------------------------------------------------------
\* SettingsManager

\* A key is a dotted string in the code.  It is kept as its path, and
\* AsChanges is the value the same argument is when it is read as a tree.
Key(path) == [k |-> "key", path |-> path]

AsChanges(changes) == IF changes.k = "key" THEN S(Dotted(changes.path)) ELSE changes

\* getLayers: what each layer's get(key) gives, in decreasing order of
\* preference.
LayerResults(lockedS, transientS, userS, profileS, key) ==
  <<ProfileGet(lockedS, key), TransientGet(transientS, key), UserGet(userS, key),
    ProfileGet(profileS, key), DefaultsGet(key)>>

\* The loop of SettingsManager.get over the layers' results.
RECURSIVE GetLoop(_, _)
GetLoop(results, merged) ==
  IF results = <<>> THEN merged
  ELSE LET result == Head(results) IN
       IF result = Undef THEN GetLoop(Tail(results), merged)
       ELSE IF TypeofObject(result) /\ Truthy(result)
       THEN GetLoop(Tail(results), lodashMerge(lodashMerge(EmptyObject, result), merged))
       ELSE result

\* SettingsManager.get
ManagerGet(lockedS, transientS, userS, profileS, key) ==
  GetLoop(LayerResults(lockedS, transientS, userS, profileS, key), EmptyObject)

\* getLayers: each layer's snapshot, in decreasing order of preference.
LayerSnapshots(lockedS, transientS, userS, profileS) ==
  <<ProfileGetSnapshot(lockedS), transientS, UserGetAll(userS),
    ProfileGetSnapshot(profileS), DefaultsGetSnapshot>>

\* SettingsManager.getSnapshot: every turn of the loop computes
\* _.merge({}, layer.getSnapshot(), merged) and drops it; merged is returned
\* as it was created.
ManagerGetSnapshot(lockedS, transientS, userS, profileS) ==
  LET merged == EmptyObject
      snapshots == LayerSnapshots(lockedS, transientS, userS, profileS)
      dropped == [i \in 1..Len(snapshots) |->
                    lodashMerge(lodashMerge(EmptyObject, snapshots[i]), merged)]
  IN merged

\* SettingsManager.getLocked
ManagerGetLocked(lockedS) == ProfileGetSnapshot(lockedS)

\* SettingsManager.set(changes, value); value is undefined in set(changes)
ManagerSet(h, versions, userS, changes, value) ==
  IF Truthy(value) THEN UserSet(userS, changes.path, value)
  ELSE UserMerge(h, versions, userS, AsChanges(changes))

\* SettingsManager.setTransient and SettingsManager.loadTransient
ManagerSetTransient(h, versions, transientS, changes) ==
  TransientMerge(h, versions, transientS, changes)

----------------------------------------------------------------------------
\* The runs: an installation (host, known Kubernetes versions, deployment
\* profile and settings file), then the load sequence, then reads and
\* writes through the SettingsManager.

MaxPatterns == 2

\* The lists of image patterns proposed: one to MaxPatterns entries.
PatternLists == UNION {[1..n -> {"a"}] : n \in 1..MaxPatterns}

MacHost == [platform |-> "darwin", arch |-> "arm64", macOS |-> 1303]
LinuxHost == [platform |-> "linux", arch |-> "x64", macOS |-> 0]

\* The deployment profile an administrator supplied, if any.
NoProfile == [locked |-> EmptyObject, defaults |-> EmptyObject]
AdminProfile ==
  [locked |-> O([kubernetes |-> O([enabled |-> B(TRUE)])]),
   defaults |-> O([kubernetes |-> O([port |-> N(6444)])])]

Installations ==
  { [host |-> MacHost, versions |-> {}, profile |-> NoProfile, file |-> Undef],
    [host |-> LinuxHost, versions |-> {"1.23.4"}, profile |-> AdminProfile,
     file |-> O([version |-> N(CURRENT_SETTINGS_VERSION)])],
    [host |-> MacHost, versions |-> {}, profile |-> NoProfile,
     file |-> O([version |-> N(4),
                 kubernetes |-> O([containerEngine |-> S("docker"), enabled |-> B(TRUE)])])] }

ValidChange == O([kubernetes |-> O([enabled |-> B(FALSE)])])
ValidWithUnknown == O([kubernetes |-> O([enabled |-> B(FALSE)]), unknown |-> N(1)])
ValidWithInvalid ==
  O([kubernetes |-> O([enabled |-> B(FALSE)]), containerEngine |-> O([name |-> S("pikachu")])])
NullMapping == O([kubernetes |-> Null])
LeafForMapping == O([kubernetes |-> N(5)])
MappingForLeaf == O([kubernetes |-> O([enabled |-> O([expected |-> S("a boolean")])])])
NullBooleanMapping == O([diagnostics |-> O([mutedChecks |-> Null])])
NullEntry == O([diagnostics |-> O([mutedChecks |-> O([a |-> Null])])])
NullLeaf == O([kubernetes |-> O([enabled |-> Null])])
DockerAlias == O([containerEngine |-> O([name |-> S("docker")])])

\* The trees proposed to SettingsManager.set(changes)
Proposals ==
  { ValidChange, ValidWithUnknown, ValidWithInvalid, NullMapping, LeafForMapping,
    MappingForLeaf, NullBooleanMapping,
    O([kubernetes |-> O([enabled |-> S("true")])]),
    DockerAlias, NullEntry, NullLeaf,
    O([diagnostics |-> O([mutedChecks |-> O([a |-> B(TRUE)])])]),
    O([diagnostics |-> O([mutedChecks |-> O([b |-> B(TRUE)])])]) }
  \cup {O([containerEngine |-> O([allowedImages |-> O([patterns |-> L(q)])])]) : q \in PatternLists}

\* The single fields written with SettingsManager.set(key, value)
Writes ==
  { <<<<"kubernetes", "enabled">>, B(TRUE)>>,
    <<<<"kubernetes", "enabled">>, B(FALSE)>>,
    <<<<"kubernetes", "port">>, N(0)>>,
    <<<<"containerEngine", "name">>, S("")>>,
    <<<<"containerEngine", "name">>, S("docker")>>,
    <<<<"kubernetes", "unknown">>, B(TRUE)>> }

TransientValidChange == O([noModalDialogs |-> B(TRUE)])
TransientValidWithUnknown == O([noModalDialogs |-> B(TRUE), unknown |-> N(1)])

\* The trees proposed to SettingsManager.setTransient
TransientProposals ==
  { TransientValidChange, TransientValidWithUnknown,
    O([application |-> O([isFirstRun |-> B(FALSE)])]),
    O([preferences |-> O([navItem |-> O([current |-> S("Nowhere")])])]) }

\* The keys read with SettingsManager.get
ReadKeys ==
  { <<"kubernetes", "enabled">>, <<"kubernetes", "port">>, <<"containerEngine", "name">>,
    <<"containerEngine", "allowedImages", "patterns">>, <<"application", "isFirstRun">> }

Called(op, arg, value, ret, error) ==
  [op |-> op, arg |-> arg, value |-> value, ret |-> ret, error |-> error]

Init ==
  \E i \in Installations :
    /\ defaults = defaultSettings
    /\ host = i.host
    /\ k8sVersions = i.versions
    /\ locked = i.profile.locked
    /\ profileDefaults = i.profile.defaults
    /\ disk = i.file
    /\ transient = defaultTransientSettings
    /\ user = Undef
    /\ pc = "start"
    /\ last = Called("new", Undef, Undef, Undef, "")

LoadTransient(values) ==
  /\ pc = "start"
  /\ \E r \in {ManagerSetTransient(host, k8sVersions, transient, values)} :
       /\ transient' = r.settings
       /\ last' = Called("loadTransient", values, Undef, r.ret, r.error)
  /\ pc' = "transient"
  /\ UNCHANGED <<defaults, host, k8sVersions, locked, profileDefaults, user, disk>>

LoadDeploymentProfiles ==
  /\ pc = "transient"
  /\ pc' = "profiles"
  /\ last' = Called("loadDeploymentProfiles", Undef, Undef, Undef, "")
  /\ UNCHANGED <<defaults, host, k8sVersions, locked, profileDefaults, transient, user, disk>>

LoadUser ==
  /\ pc = "profiles"
  /\ \E r \in {UserLoad(disk, transient)} :
       /\ user' = r.user
       /\ transient' = r.transient
       /\ last' = Called("loadUser", Undef, Undef, Undef, r.error)
  /\ pc' = "ready"
  /\ UNCHANGED <<defaults, host, k8sVersions, locked, profileDefaults, disk>>

Set(key, value) ==
  /\ pc = "ready"
  /\ \E r \in {ManagerSet(host, k8sVersions, user, Key(key), value)} :
       /\ user' = r.settings
       /\ last' = Called("set", Key(key), value, r.ret, r.error)
  /\ UNCHANGED <<defaults, host, k8sVersions, locked, profileDefaults, transient, disk, pc>>

SetChanges(changes) ==
  /\ pc = "ready"
  /\ \E r \in {ManagerSet(host, k8sVersions, user, changes, Undef)} :
       /\ user' = r.settings
       /\ last' = Called("setChanges", changes, Undef, r.ret, r.error)
  /\ UNCHANGED <<defaults, host, k8sVersions, locked, profileDefaults, transient, disk, pc>>

SetTransient(changes) ==
  /\ pc = "ready"
  /\ \E r \in {ManagerSetTransient(host, k8sVersions, transient, changes)} :
       /\ transient' = r.settings
       /\ last' = Called("setTransient", changes, Undef, r.ret, r.error)
  /\ UNCHANGED <<defaults, host, k8sVersions, locked, profileDefaults, user, disk, pc>>

Get(key) ==
  /\ pc = "ready"
  /\ last' = Called("get", Key(key), Undef,
                    ManagerGet(locked, transient, user, profileDefaults, key), "")
  /\ UNCHANGED <<defaults, host, k8sVersions, locked, profileDefaults, transient, user, disk, pc>>

GetSnapshot ==
  /\ pc = "ready"
  /\ last' = Called("getSnapshot", Undef, Undef,
                    ManagerGetSnapshot(locked, transient, user, profileDefaults), "")
  /\ UNCHANGED <<defaults, host, k8sVersions, locked, profileDefaults, transient, user, disk, pc>>

GetLocked ==
  /\ pc = "ready"
  /\ last' = Called("getLocked", Undef, Undef, ManagerGetLocked(locked), "")
  /\ UNCHANGED <<defaults, host, k8sVersions, locked, profileDefaults, transient, user, disk, pc>>

Next ==
  \/ \E values \in {EmptyObject, TransientValidChange} : LoadTransient(values)
  \/ LoadDeploymentProfiles
  \/ LoadUser
  \/ \E w \in Writes : Set(w[1], w[2])
  \/ \E changes \in Proposals : SetChanges(changes)
  \/ \E changes \in TransientProposals : SetTransient(changes)
  \/ \E key \in ReadKeys : Get(key)
  \/ GetSnapshot
  \/ GetLocked

Spec == Init /\ [][Next]_vars

----------------------------------------------------------------------------
\* Properties

\* The call returned a ValidatorReturn that holds errors.
ReturnedErrors(call) == "errors" \in DOMAIN call.ret /\ call.ret.errors # <<>>

\* this.validator.validateSettings is given this tree by SettingsLayerUser.merge
Current(userS) == lodashMerge(lodashMerge(EmptyObject, defaultSettings), OrEmpty(userS))

\* The first defined value among the layers' results, undefined if none.
RECURSIVE FirstDefined(_)
FirstDefined(results) ==
  IF results = <<>> THEN Undef
  ELSE IF Head(results) # Undef THEN Head(results)
  ELSE FirstDefined(Tail(results))

\* The deep merge of the layers' snapshots, the lowest priority applied
\* first and the highest last.
RECURSIVE DeepMerge(_)
DeepMerge(snapshots) ==
  IF snapshots = <<>> THEN EmptyObject
  ELSE lodashMerge(DeepMerge(Tail(snapshots)), Head(snapshots))

\* The paths of a tree: those of its leaves, and all of them.
RECURSIVE LeafPaths(_)
LeafPaths(t) ==
  IF t.k # "obj" THEN {<<>>}
  ELSE UNION {{<<key>> \o p : p \in LeafPaths(t.v[key])} : key \in DOMAIN t.v}

RECURSIVE AllPaths(_)
AllPaths(t) ==
  IF t.k # "obj" THEN {}
  ELSE UNION {{<<key>>} \cup {<<key>> \o p : p \in AllPaths(t.v[key])} : key \in DOMAIN t.v}

\* The tree that holds value at path and nothing else.
RECURSIVE Only(_, _)
Only(path, value) ==
  IF path = <<>> THEN value ELSE O([key \in {Head(path)} |-> Only(Tail(path), value)])

\* value is of the kind declared: a mapping with declared keys of the
\* declared kinds under a mapping, any mapping under an open mapping field
\* (declared as {}), a leaf of the same type under a leaf.
RECURSIVE ConformsTo(_, _)
ConformsTo(value, declared) ==
  IF declared.k = "obj"
  THEN /\ value.k = "obj"
       /\ \/ DOMAIN declared.v = {}
          \/ \A key \in DOMAIN value.v :
               key \in DOMAIN declared.v /\ ConformsTo(value.v[key], declared.v[key])
  ELSE value.k = declared.k

\* The User tree respects Hard-Defaults; the version field of the stored
\* document is no setting and is left aside.
Conforms(userS) ==
  userS = Undef \/ ConformsTo(O(Del(userS.v, {"version"})), defaultSettings)

\* C1: when merge(changes) of the User layer or of the Transient layer
\* returns a result that holds errors, both layers' trees are after the call
\* what they were before it: no key of changes is applied.
MergeWithErrorsChangesNothing ==
  [][(last'.op \in {"setChanges", "set", "setTransient"} /\ ReturnedErrors(last'))
       => (user' = user /\ transient' = transient)]_vars

\* C1 happens: a valid key proposed together with an unknown key was
\* rejected, and the valid key is not in the User tree.
ValidKeyWithUnknownKeyRejected ==
  /\ last.op = "setChanges"
  /\ last.arg = ValidWithUnknown
  /\ ReturnedErrors(last)
  /\ UserGet(user, <<"kubernetes", "enabled">>) # B(FALSE)
  /\ lodashGet(Current(user), <<"kubernetes", "enabled">>) = B(TRUE)

\* C2: SettingsManager.get of a leaf path gives the value of the first
\* layer, in the order Locked, Transient, User, Profile-Defaults,
\* Hard-Defaults, whose own get of the path is defined.
GetGivesFirstDefinedLayer ==
  last.op = "get" =>
    last.ret = FirstDefined(LayerResults(locked, transient, user, profileDefaults, last.arg.path))

\* C3: SettingsManager.set(key, value) does what User.set(key, value) does,
\* whatever the value, and SettingsManager.set(changes) does what
\* User.merge(changes) does.
SetWritesOneFieldUnchecked ==
  [][/\ last'.op = "set" =>
          Outcome(user', last'.ret, last'.error) = UserSet(user, last'.arg.path, last'.value)
     /\ last'.op = "setChanges" =>
          Outcome(user', last'.ret, last'.error) = UserMerge(host, k8sVersions, user, last'.arg)]_vars

\* C4: SettingsManager.getSnapshot gives the deep merge of the layers'
\* snapshots, lowest priority first, so that at every leaf path some layer
\* defines it holds what SettingsManager.get gives there.
SnapshotIsDeepMergeOfLayers ==
  last.op = "getSnapshot" =>
    /\ last.ret = DeepMerge(LayerSnapshots(locked, transient, user, profileDefaults))
    /\ \A key \in ReadKeys :
         lodashGet(last.ret, key) = ManagerGet(locked, transient, user, profileDefaults, key)

\* C5: without a settings file, loadTransient, loadDeploymentProfiles and
\* loadUser end without error, and after loadUser the User layer holds an
\* empty tree, the Transient layer's application.isFirstRun is true and
\* getSnapshot() is Hard-Defaults.
FreshInstallLoadsDefaults ==
  [][(disk = Undef /\ pc' # pc) =>
       /\ last'.error = ""
       /\ pc' = "ready" =>
            /\ UserGetAll(user') = EmptyObject
            /\ TransientGet(transient', <<"application", "isFirstRun">>) = B(TRUE)
            /\ ManagerGetSnapshot(locked', transient', user', profileDefaults') = defaultSettings]_vars

\* A leaf path of the Locked layer for which changes proposes another value.
ProposesLockedChange(lockedS, changes) ==
  \E p \in LeafPaths(lockedS) :
    p # <<>> /\ lodashGet(changes, p) \notin {Undef, lodashGet(lockedS, p)}

MergeKeepsDeclaredShape ==
  [][(last'.op = "setChanges" /\ Conforms(user)) => Conforms(user')]_vars

\* C8: for a tree T and any path p of T, validateSettings(T, {p: T[p]})
\* returns modified = false and no errors.
ProposingCurrentValueIsNoOp ==
  (pc = "ready" /\ Conforms(user)) =>
    \A p \in AllPaths(Current(user)) :
      validateSettings(host, k8sVersions, Current(user), Only(p, lodashGet(Current(user), p)))
        = NewValidatorReturn

\* C9: no result of validateSettings has modified = true together with
\* errors, whatever the current tree and the proposal.
NeverModifiedWithErrors ==
  "errors" \in DOMAIN last.ret => ~(last.ret.modified /\ last.ret.errors # <<>>)

\* C9 happens: a proposal that holds a change the validator accepts in one
\* subtree and one it rejects in another came back with errors and
\* modified = false.
ValidAndInvalidSubtreesRejected ==
  /\ last.op = "setChanges"
  /\ last.arg = ValidWithInvalid
  /\ lodashGet(Current(user), <<"kubernetes", "enabled">>) = B(TRUE)
  /\ ReturnedErrors(last)
  /\ ~last.ret.modified

\* C10: validateSettings, given a current tree that respects the schema and
\* any proposal, returns a result and does not throw.
ValidateSettingsNeverThrows ==
  [][(last'.op \in {"setChanges", "set"} /\ Conforms(user)) => last'.error # "TypeError"]_vars

----------------------------------------------------------------------------
\* The leaf rules on their own: a rule is called with a current and a
\* desired value, as checkProposedSettings calls it once the two differ.

MaxLen == 3

\* The members of the lists proposed: two spellings of one word, another
\* word, and two whitespace-only strings.
Members == {"a", "A", "b", " ", "  "}

StringLists == UNION {[1..n -> Members] : n \in 0..MaxLen}

\* The values desired for a leaf.
Leaves ==
  { B(TRUE), B(FALSE), N(0), N(1), N(65535), N(65536), S(""), S("moby"), S("pikachu"),
    S("true"), Null, L(<<>>), L(<<"moby">>), EmptyObject }

EnumValues == {{"containerd", "moby", "docker"}, {VMTypeQEMU, VMTypeVZ}}

NumberRanges == {<<1, 65535>>, <<0, 1>>}

\* The name the rule is given for its messages.
RuleFqname == "field"

RuleCalled(name, params, current, desired, ret) ==
  [op |-> name, arg |-> [k |-> "rule", params |-> params, current |-> current],
   value |-> desired, ret |-> ret, error |-> IF ret.threw THEN "TypeError" ELSE ""]

RuleInit ==
  /\ defaults = defaultSettings
  /\ host = MacHost
  /\ k8sVersions = {}
  /\ locked = EmptyObject
  /\ profileDefaults = EmptyObject
  /\ disk = Undef
  /\ transient = defaultTransientSettings
  /\ user = Undef
  /\ pc = "rules"
  /\ last = Called("new", Undef, Undef, Undef, "")

RuleFrame == UNCHANGED <<defaults, host, k8sVersions, locked, profileDefaults, transient, user, disk, pc>>

CheckBoolean(desired) ==
  /\ pc = "rules"
  /\ last' = RuleCalled("checkBoolean", <<>>, Undef, desired, checkBoolean(desired, RuleFqname))
  /\ RuleFrame

CheckString(desired) ==
  /\ pc = "rules"
  /\ last' = RuleCalled("checkString", <<>>, Undef, desired, checkString(desired, RuleFqname))
  /\ RuleFrame

CheckNumber(range, desired) ==
  /\ pc = "rules"
  /\ last' = RuleCalled("checkNumber", range, Undef, desired,
                        checkNumber(range[1], range[2], desired, RuleFqname))
  /\ RuleFrame

CheckEnum(validValues, desired) ==
  /\ pc = "rules"
  /\ last' = RuleCalled("checkEnum", validValues, Undef, desired,
                        checkEnum(validValues, desired, RuleFqname))
  /\ RuleFrame

CheckUniqueStringArray(current, desired) ==
  /\ pc = "rules"
  /\ last' = RuleCalled("checkUniqueStringArray", findDuplicates(desired), L(current), L(desired),
                        checkUniqueStringArray(L(current), L(desired), RuleFqname))
  /\ RuleFrame

RuleNext ==
  \/ \E desired \in Leaves : CheckBoolean(desired)
  \/ \E desired \in Leaves : CheckString(desired)
  \/ \E range \in NumberRanges, desired \in Leaves : CheckNumber(range, desired)
  \/ \E validValues \in EnumValues, desired \in Leaves : CheckEnum(validValues, desired)
  \/ \E current \in {<<>>, <<"a">>}, desired \in StringLists : CheckUniqueStringArray(current, desired)

RuleSpec == RuleInit /\ [][RuleNext]_vars

\* The result is one 'Invalid value for' error for the field, nothing
\* modified, fatal or not as said.
OneInvalidError(ret, fatal) ==
  ret = [modified |-> FALSE, errors |-> <<[kind |-> "invalid", fqname |-> RuleFqname]>>,
         fatal |-> fatal, threw |-> FALSE]

\* C11: checkEnum rejects a string outside its values with one 'Invalid
\* value for' error, modified = false and fatal = true; checkBoolean,
\* checkString and checkNumber reject a value of the wrong type or out of
\* range with the same kind of error and fatal = false.
EnumRejectionIsFatalOthersAreNot ==
  /\ (last.op = "checkEnum" /\ last.value.k = "str" /\ last.value.v \notin last.arg.params)
       => OneInvalidError(last.ret, TRUE)
  /\ (last.op = "checkBoolean" /\ last.value.k # "bool") => OneInvalidError(last.ret, FALSE)
  /\ (last.op = "checkString" /\ last.value.k # "str") => OneInvalidError(last.ret, FALSE)
  /\ (last.op = "checkNumber" /\ last.value.k # "num") => OneInvalidError(last.ret, FALSE)
  /\ (last.op = "checkNumber" /\ last.value.k = "num"
        /\ (last.value.v < last.arg.params[1] \/ last.value.v > last.arg.params[2]))
       => OneInvalidError(last.ret, FALSE)

\* C11 happens: an enum rule was given a string that is not one of its
\* values and rejected it fatally.
EnumRejectedOutsider ==
  /\ last.op = "checkEnum"
  /\ last.value = S("pikachu")
  /\ last.ret.fatal
  /\ Len(last.ret.errors) = 1

\* The number of places of q that hold x.
Count(q, x) == Cardinality({i \in 1..Len(q) : q[i] = x})

\* x consists of whitespace alone.
WhiteSpaceOnly(x) == x \in {" ", "  "}

\* C19: for a list of strings, the duplicates reported hold once each
\* string that is not whitespace and occurs twice or more (spellings that
\* differ in case are different strings), every whitespace-only entry when
\* there are two or more of them and none when there is one; the rule
\* returns an error, and modified = false, exactly when the report is not
\* empty.
DuplicatesReportedOnce ==
  last.op = "checkUniqueStringArray" =>
    LET list == last.value.v
        report == last.arg.params
        whiteSpaces == Cardinality({i \in 1..Len(list) : WhiteSpaceOnly(list[i])})
    IN /\ \A x \in Members :
            Count(report, x) =
              IF WhiteSpaceOnly(x)
              THEN (IF whiteSpaces >= 2 THEN Count(list, x) ELSE 0)
              ELSE (IF Count(list, x) >= 2 THEN 1 ELSE 0)
       /\ \A i \in 1..Len(report) : report[i] \in Members
       /\ (last.ret.errors # <<>>) <=> (report # <<>>)
       /\ Len(last.ret.errors) <= 1
       /\ report # <<>> => ~last.ret.modified
       /\ ~last.ret.threw

\* C19 happens: a list with one string twice and a single whitespace-only
\* entry was rejected for the string alone.
RepeatedStringWithOneBlankRejected ==
  /\ last.op = "checkUniqueStringArray"
  /\ last.value = L(<<"a", " ", "a">>)
  /\ last.arg.params = <<"a">>
  /\ last.ret.errors # <<>>
  /\ ~last.ret.modified

----------------------------------------------------------------------------
\* Properties of the bulk write

EngineName == <<"containerEngine", "name">>

\* C12: a bulk write that proposes containerEngine.name = "docker" while the
\* current value is not moby returns no errors and modified = true, and the
\* User layer then holds "moby" there, never "docker".
DockerIsRecordedAsMoby ==
  [][(last'.op = "setChanges" /\ last'.arg = DockerAlias
        /\ lodashGet(Current(user), EngineName) # S("moby"))
       => /\ last'.error = ""
          /\ ~ReturnedErrors(last')
          /\ last'.ret.modified
          /\ UserGet(user', EngineName) = S("moby")]_vars

\* C12 happens: "docker" was proposed, the result says modified, and the
\* User layer holds "moby".
DockerProposedMobyStored ==
  /\ last.op = "setChanges"
  /\ last.arg = DockerAlias
  /\ last.error = ""
  /\ last.ret.modified
  /\ UserGet(user, EngineName) = S("moby")

\* The paths at which a tree holds null.
RECURSIVE NullPaths(_)
NullPaths(t) ==
  IF t.k # "obj" THEN {}
  ELSE UNION {IF t.v[key] = Null THEN {<<key>>}
              ELSE {<<key>> \o p : p \in NullPaths(t.v[key])} : key \in DOMAIN t.v}

\* C13: User.merge of a proposal that holds null under a key returns no
\* errors and removes the key from the User tree (it is not stored as null),
\* and every leaf the tree held elsewhere is kept.
NullRemovesKeyAndKeepsSiblings ==
  [][(last'.op = "setChanges" /\ user # Undef /\ NullPaths(last'.arg) # {})
       => /\ last'.error = ""
          /\ ~ReturnedErrors(last')
          /\ \A p \in NullPaths(last'.arg) : ~lodashHas(user', p)
          /\ \A q \in LeafPaths(user) :
               (\A p \in NullPaths(last'.arg) : SubSeq(q, 1, Len(p)) # p)
                 => lodashGet(user', q) = lodashGet(user, q)]_vars

----------------------------------------------------------------------------
\* The writable layers on their own: load() of the User layer, then
\* set(key, value) of the User and of the Transient layer, which trusted
\* callers use without the SettingsManager.

\* The keys written: a leaf, a subtree and two keys the defaults lack.
LayerUserKeys ==
  {<<"kubernetes", "enabled">>, <<"kubernetes">>, <<"kubernetes", "unknown">>, <<"unknown">>}

LayerTransientKeys == {<<"application", "isFirstRun">>, <<"noModalDialogs">>, <<"unknown">>}

\* The values written: one of the declared type, one of another type, null.
LayerValues == {B(FALSE), S("pikachu"), Null}

LayerInit ==
  /\ defaults = defaultSettings
  /\ host = MacHost
  /\ k8sVersions = {}
  /\ locked = EmptyObject
  /\ profileDefaults = EmptyObject
  /\ disk \in {Undef, O([version |-> N(CURRENT_SETTINGS_VERSION)])}
  /\ transient = defaultTransientSettings
  /\ user = Undef
  /\ pc = "constructed"
  /\ last = Called("new", Undef, Undef, Undef, "")

LayerLoad ==
  /\ pc = "constructed"
  /\ \E r \in {UserLoad(disk, transient)} :
       /\ user' = r.user
       /\ transient' = r.transient
       /\ last' = Called("load", Undef, Undef, Undef, r.error)
  /\ pc' = "loaded"
  /\ UNCHANGED <<defaults, host, k8sVersions, locked, profileDefaults, disk>>

LayerUserSet(key, value) ==
  /\ \E r \in {UserSet(user, key, value)} :
       /\ user' = r.settings
       /\ last' = Called("userSet", Key(key), value, r.ret, r.error)
  /\ UNCHANGED <<defaults, host, k8sVersions, locked, profileDefaults, transient, disk, pc>>

LayerTransientSet(key, value) ==
  /\ \E r \in {TransientSet(transient, key, value)} :
       /\ transient' = r.settings
       /\ last' = Called("transientSet", Key(key), value, r.ret, r.error)
  /\ UNCHANGED <<defaults, host, k8sVersions, locked, profileDefaults, user, disk, pc>>

LayerNext ==
  \/ LayerLoad
  \/ \E key \in LayerUserKeys, value \in LayerValues : LayerUserSet(key, value)
  \/ \E key \in LayerTransientKeys, value \in LayerValues : LayerTransientSet(key, value)

LayerSpec == LayerInit /\ [][LayerNext]_vars

\* C14: once the User layer is loaded, set(key, value) of the User layer and
\* of the Transient layer resolves true and stores the value at the key,
\* whatever the value, when the key exists in the layer's defaults;
\* otherwise it resolves false and leaves the layer's tree as it was.
SetStoresExactlyDeclaredKeys ==
  [][/\ (last'.op = "userSet" /\ pc = "loaded") =>
          IF lodashHas(defaultSettings, last'.arg.path)
          THEN /\ last'.error = ""
               /\ last'.ret = B(TRUE)
               /\ UserGet(user', last'.arg.path) = last'.value
          ELSE /\ last'.error = ""
               /\ last'.ret = B(FALSE)
               /\ user' = user
     /\ last'.op = "transientSet" =>
          IF lodashHas(defaultTransientSettings, last'.arg.path)
          THEN /\ last'.error = ""
               /\ last'.ret = B(TRUE)
               /\ TransientGet(transient', last'.arg.path) = last'.value
          ELSE /\ last'.error = ""
               /\ last'.ret = B(FALSE)
               /\ transient' = transient]_vars

----------------------------------------------------------------------------
\* The settings file: a document on disk is loaded and migrated, the User
\* layer is written to, saved, and loaded again by the next run.

\* The highest version a stored document has: one past the current.
NewestVersion == CURRENT_SETTINGS_VERSION + 1

\* What a stored document holds beside its version.
Bodies ==
  { EmptyObject,
    O([kubernetes |-> O([containerEngine |-> S("docker"), enabled |-> B(TRUE)])]),
    O([kubernetes |-> O([containerEngine |-> S("docker")])]),
    O([containerEngine |-> O([imageAllowList |-> O([enabled |-> B(TRUE)])])]),
    O([kubernetes |-> O([enabled |-> B(FALSE)]), unknown |-> N(1)]) }

Documents ==
  {O(Put(body.v, "version", N(version))) : body \in Bodies, version \in 0..NewestVersion}

FileInit ==
  /\ defaults = defaultSettings
  /\ host = MacHost
  /\ k8sVersions = {}
  /\ locked = EmptyObject
  /\ profileDefaults = EmptyObject
  /\ disk \in Documents \cup {Undef}
  /\ transient = defaultTransientSettings
  /\ user = Undef
  /\ pc = "constructed"
  /\ last = Called("new", Undef, Undef, Undef, "")

\* load(); a load that throws leaves the layer as it was constructed.
FileLoad ==
  /\ pc = "constructed"
  /\ \E r \in {UserLoad(disk, transient)} :
       /\ user' = r.user
       /\ transient' = r.transient
       /\ last' = Called("load", disk, Undef, Undef, r.error)
       /\ pc' = IF r.error = "" THEN "loaded" ELSE "failed"
  /\ UNCHANGED <<defaults, host, k8sVersions, locked, profileDefaults, disk>>

FileMerge(changes) ==
  /\ pc = "loaded"
  /\ \E r \in {UserMerge(host, k8sVersions, user, changes)} :
       /\ user' = r.settings
       /\ last' = Called("merge", changes, Undef, r.ret, r.error)
  /\ UNCHANGED <<defaults, host, k8sVersions, locked, profileDefaults, transient, disk, pc>>

FileSet(key, value) ==
  /\ pc = "loaded"
  /\ \E r \in {UserSet(user, key, value)} :
       /\ user' = r.settings
       /\ last' = Called("set", Key(key), value, r.ret, r.error)
  /\ UNCHANGED <<defaults, host, k8sVersions, locked, profileDefaults, transient, disk, pc>>

FileSave ==
  /\ pc = "loaded"
  /\ disk' = UserSave(user)
  /\ last' = Called("save", Undef, Undef, Undef, "")
  /\ UNCHANGED <<defaults, host, k8sVersions, locked, profileDefaults, transient, user, pc>>

\* The application exits and starts again: the layers are constructed anew.
FileRestart ==
  /\ pc \in {"loaded", "failed"}
  /\ pc' = "constructed"
  /\ user' = Undef
  /\ transient' = defaultTransientSettings
  /\ last' = Called("new", Undef, Undef, Undef, "")
  /\ UNCHANGED <<defaults, host, k8sVersions, locked, profileDefaults, disk>>

FileNext ==
  \/ FileLoad
  \/ FileMerge(ValidChange)
  \/ \E value \in {B(TRUE), Undef} : FileSet(<<"kubernetes", "enabled">>, value)
  \/ FileSave
  \/ FileRestart

FileSpec == FileInit /\ [][FileNext]_vars

\* C15: load() of a document whose version is lower than the current one
\* gives a document at the current version, and load() of a document at the
\* current version gives that document unchanged.
MigrationReachesCurrentVersion ==
  [][(last'.op = "load" /\ disk # Undef) =>
       /\ Prop(disk, "version").v < CURRENT_SETTINGS_VERSION =>
            /\ last'.error = ""
            /\ UserGet(user', <<"version">>) = N(CURRENT_SETTINGS_VERSION)
       /\ Prop(disk, "version").v = CURRENT_SETTINGS_VERSION =>
            /\ last'.error = ""
            /\ user' = disk]_vars

\* C16: the version of the document the User layer exposes after load() is
\* not lower than the version stored on disk, a stored version above the
\* current one included.
VersionIsNeverLowered ==
  [][(last'.op = "load" /\ disk # Undef /\ last'.error = "") =>
       UserGet(user', <<"version">>).v >= Prop(disk, "version").v]_vars

\* C17: the document save() writes holds every leaf of the User tree and a
\* version that is a number, after a fresh install too.
SavedDocumentIsVersioned ==
  [][last'.op = "save" =>
       /\ Prop(disk', "version").k = "num"
       /\ \A q \in LeafPaths(UserGetAll(user)) :
            lodashGet(UserGetAll(user), q) # Undef
              => lodashGet(disk', q) = lodashGet(UserGetAll(user), q)]_vars

----------------------------------------------------------------------------
\* The Hard-Defaults layer as other code holds it: settingsLayerDefaults, the
\* Proxy of WrapSubtree, and the references read out of it.

\* IsSettingLeaf(input): typeof input !== 'object' || Array.isArray(input)
IsSettingLeaf(input) == input.k \notin {"obj", "null"}

\* The get trap of WrapSubtree: undefined and leaves come back as they are
\* stored, a subtree comes back wrapped.
WrapSubtreeGet(target, p) ==
  LET value == Prop(target, p)
  IN [value |-> value, wrapped |-> ~(value = Undef \/ IsSettingLeaf(value)), threw |-> FALSE]

\* settingsLayerDefaults.a.b...: the reference the property accesses along
\* path give; reading a property of undefined throws.
RECURSIVE Reference(_, _)
Reference(target, path) ==
  IF path = <<>> THEN [value |-> target, wrapped |-> TRUE, threw |-> FALSE]
  ELSE LET parent == Reference(target, SubSeq(path, 1, Len(path) - 1))
       IN IF parent.threw \/ parent.value = Undef
          THEN [value |-> Undef, wrapped |-> FALSE, threw |-> TRUE]
          ELSE IF parent.wrapped THEN WrapSubtreeGet(parent.value, path[Len(path)])
          ELSE [value |-> Prop(parent.value, path[Len(path)]), wrapped |-> FALSE, threw |-> FALSE]

\* The paths the accesses go through, and the string a list is given.
DefaultsPaths ==
  { <<"kubernetes">>, <<"kubernetes", "enabled">>, <<"kubernetes", "port">>,
    <<"containerEngine", "name">>,
    <<"containerEngine", "allowedImages", "patterns">>,
    <<"diagnostics", "mutedChecks">>,
    <<"experimental", "virtualMachine", "mount", "type">> }
PushedItem == "a"

DefaultsInit ==
  /\ defaults = defaultSettings
  /\ host = MacHost
  /\ k8sVersions = {}
  /\ locked = EmptyObject
  /\ profileDefaults = EmptyObject
  /\ disk = Undef
  /\ transient = defaultTransientSettings
  /\ user = Undef
  /\ pc = "defaults"
  /\ last = Called("new", Undef, Undef, Undef, "")

DefaultsFrame == UNCHANGED <<host, k8sVersions, locked, profileDefaults, transient, user, disk, pc>>

\* settingsLayerDefaults.a.b: a read
DefaultsRead(path) ==
  /\ \E r \in {Reference(defaults, path)} :
       last' = Called("read", Key(path), Undef, r.value, IF r.threw THEN "TypeError" ELSE "")
  /\ UNCHANGED defaults
  /\ DefaultsFrame

\* settingsLayerDefaults.a.b = value: the set trap of the wrapper of a, or
\* the TypeError of assigning to a property of undefined.
DefaultsAssign(path, value) ==
  /\ \E parent \in {Reference(defaults, SubSeq(path, 1, Len(path) - 1))} :
       /\ parent.wrapped \/ parent.threw
       /\ last' = Called("assign", Key(path), value, Undef, "TypeError")
  /\ UNCHANGED defaults
  /\ DefaultsFrame

\* delete settingsLayerDefaults.a.b: the wrapper has no deleteProperty trap,
\* the Proxy deletes the property of its target.
DefaultsDelete(path) ==
  /\ \E parent \in {Reference(defaults, SubSeq(path, 1, Len(path) - 1))} :
       /\ parent.wrapped \/ parent.threw
       /\ last' = Called("delete", Key(path), Undef, Undef, IF parent.threw THEN "TypeError" ELSE "")
       /\ defaults' =
            IF parent.threw THEN defaults
            ELSE IF Len(path) = 1 THEN O(Del(defaults.v, {path[1]}))
            ELSE lodashSet(defaults, SubSeq(path, 1, Len(path) - 1),
                           O(Del(parent.value.v, {path[Len(path)]})))
  /\ DefaultsFrame

\* settingsLayerDefaults.a.b.push(item): a list is a leaf, the get trap hands
\* out the array of defaultSettings itself.
DefaultsPush(path, item) ==
  /\ \E list \in {Reference(defaults, path)} :
       /\ ~list.threw
       /\ list.value.k = "list"
       /\ Len(list.value.v) < MaxLen
       /\ last' = Called("push", Key(path), S(item), N(Len(list.value.v) + 1), "")
       /\ defaults' = lodashSet(defaults, path, L(Append(list.value.v, item)))
  /\ DefaultsFrame

DefaultsNext ==
  \/ \E path \in DefaultsPaths : DefaultsRead(path)
  \/ \E path \in DefaultsPaths : DefaultsAssign(path, B(TRUE))
  \/ \E path \in DefaultsPaths : DefaultsDelete(path)
  \/ \E path \in DefaultsPaths : DefaultsPush(path, PushedItem)

DefaultsSpec == DefaultsInit /\ [][DefaultsNext]_vars

\* C18: an assignment through Hard-Defaults throws at every depth, and
\* nothing done through Hard-Defaults or a reference read out of it changes
\* what Hard-Defaults holds, lists included.
HardDefaultsNeverChange ==
  [][/\ defaults' = defaults
     /\ last'.op = "assign" => last'.error = "TypeError"]_vars

----------------------------------------------------------------------------
\* The command line (commandLineOptions.ts): after the load sequence the
\* application hands its arguments to updateFromCommandLine, once.

MaxArgs == 3

\* An argument: its text, and what startsWith('--'), indexOf('=') and
\* substring make of it (the dotted name as a path, the text after '=').
Argument(text, dashes, field, equal, value) ==
  [text |-> text, dashes |-> dashes, field |-> field, equal |-> equal, value |-> value]

Arguments ==
  { Argument("moby", FALSE, <<>>, FALSE, ""),
    Argument("--inspect", TRUE, <<"inspect">>, FALSE, ""),
    Argument("--no-modal-dialogs", TRUE, <<"no-modal-dialogs">>, FALSE, ""),
    Argument("--kubernetes", TRUE, <<"kubernetes">>, FALSE, ""),
    Argument("--kubernetes.enabled", TRUE, <<"kubernetes", "enabled">>, FALSE, ""),
    Argument("--kubernetes.enabled=false", TRUE, <<"kubernetes", "enabled">>, TRUE, "false"),
    Argument("--kubernetes.port=moby", TRUE, <<"kubernetes", "port">>, TRUE, "moby"),
    Argument("--containerEngine.name", TRUE, <<"containerEngine", "name">>, FALSE, "") }

CommandLines == UNION {[1..n -> Arguments] : n \in 0..MaxArgs}

\* JSON.parse of an argument's value
JSONParse(text) ==
  CASE text = "true" -> B(TRUE)
    [] text = "false" -> B(FALSE)
    [] text = "null" -> Null
    [] OTHER -> Threw

\* getObjectRepresentation(fqFieldAccessor, finalValue)
getObjectRepresentation(fqFieldAccessor, finalValue) ==
  IF Len(fqFieldAccessor) = 1 THEN O([key \in {fqFieldAccessor[1]} |-> finalValue])
  ELSE lodashSet(EmptyObject, fqFieldAccessor, finalValue)

\* What the loop of updateFromCommandLine carries from one argument to the
\* next, and how it ends when an argument makes it throw.
LoopState(external, newSettings, transientS, error) ==
  [processingExternalArguments |-> external, newSettings |-> newSettings,
   transient |-> transientS, error |-> error]

Throw(st, error) == [st EXCEPT !.error = error]

\* A turn of the loop: the loop's state after it, and the index the next
\* turn starts from.
Continue(next, st) == [next |-> next, st |-> st]

\* finalValue: 'true' for a boolean option without '=', the next argument
\* for another option without '=', the text after '=' otherwise.
FinalValue(commandLineArgs, i, currentValue) ==
  IF currentValue.k = "bool"
  THEN (IF commandLineArgs[i].equal THEN commandLineArgs[i].value ELSE "true")
  ELSE IF commandLineArgs[i].equal THEN commandLineArgs[i].value
  ELSE commandLineArgs[i + 1].text

\* From the switch on typeof currentValue to the merge into newSettings.
AssignOption(commandLineArgs, i, st, currentValue, takesNext, finalValue) ==
  IF TypeofObject(currentValue)
  THEN Continue(i, Throw(st, "Can't overwrite existing setting"))
  ELSE IF takesNext /\ i = Len(commandLineArgs)
  THEN Continue(i, Throw(st, "No value provided"))
  ELSE IF currentValue.k \in {"bool", "num"} /\ finalValue = Threw
  THEN Continue(i, Throw(st, "Can't evaluate as " \o currentValue.k))
  ELSE IF currentValue.k \in {"bool", "num"} /\ finalValue.k # currentValue.k
  THEN Continue(i, Throw(st, "TypeError"))
  ELSE Continue(IF takesNext THEN i + 2 ELSE i + 1,
         [st EXCEPT !.processingExternalArguments = FALSE,
                    !.newSettings =
                      lodashMerge(st.newSettings,
                                  getObjectRepresentation(commandLineArgs[i].field, finalValue))])

\* An option that is not no-modal-dialogs, given settings.get(fqFieldName).
SettingOption(commandLineArgs, i, st, currentValue) ==
  IF currentValue = Undef
  THEN IF st.processingExternalArguments THEN Continue(i + 1, st)
       ELSE Continue(i, Throw(st, "Can't evaluate command-line argument"))
  ELSE AssignOption(commandLineArgs, i, st, currentValue,
                    currentValue.k # "bool" /\ ~commandLineArgs[i].equal,
                    IF TypeofObject(currentValue)
                         \/ (currentValue.k # "bool" /\ ~commandLineArgs[i].equal
                              /\ i = Len(commandLineArgs))
                    THEN Undef
                    ELSE IF currentValue.k \in {"bool", "num"}
                    THEN JSONParse(FinalValue(commandLineArgs, i, currentValue))
                    ELSE S(FinalValue(commandLineArgs, i, currentValue)))

\* The body of the loop for commandLineArgs[i].
ArgumentStep(h, versions, lockedS, userS, profileS, commandLineArgs, i, st) ==
  IF ~commandLineArgs[i].dashes
  THEN IF st.processingExternalArguments THEN Continue(i + 1, st)
       ELSE Continue(i, Throw(st, "Unexpected argument"))
  ELSE IF commandLineArgs[i].field = <<"no-modal-dialogs">>
  THEN IF commandLineArgs[i].value \in {"", "true", "false"}
       THEN Continue(i + 1,
              [st EXCEPT !.transient =
                           ManagerSetTransient(h, versions, st.transient,
                             O([noModalDialogs |-> B(commandLineArgs[i].value # "false")])).settings,
                         !.processingExternalArguments = FALSE])
       ELSE Continue(i, Throw(st, "Invalid associated value"))
  ELSE SettingOption(commandLineArgs, i, st,
                     ManagerGet(lockedS, st.transient, userS, profileS, commandLineArgs[i].field))

\* One turn, then the turns after it.
RECURSIVE ArgumentLoop(_, _, _, _, _, _, _, _)
NextTurn(h, versions, lockedS, userS, profileS, commandLineArgs, turn) ==
  ArgumentLoop(h, versions, lockedS, userS, profileS, commandLineArgs, turn.next, turn.st)

\* for (let i = 0; i < lim; i++), left by a throw
ArgumentLoop(h, versions, lockedS, userS, profileS, commandLineArgs, i, st) ==
  IF st.error # "" \/ i > Len(commandLineArgs) THEN st
  ELSE NextTurn(h, versions, lockedS, userS, profileS, commandLineArgs,
                ArgumentStep(h, versions, lockedS, userS, profileS, commandLineArgs, i, st))

\* How updateFromCommandLine ends: the layers it leaves, what settings.set
\* returned, and the error it threw.
Ended(userAfter, transientAfter, ret, error) ==
  [user |-> userAfter, transient |-> transientAfter, ret |-> ret, error |-> error]

\* After `const result = await settings.set(newSettings)`
AfterSet(h, versions, st, result) ==
  IF result.error # "" THEN Ended(result.settings, st.transient, result.ret, result.error)
  ELSE IF result.ret.errors # <<>>
  THEN Ended(result.settings, st.transient, result.ret,
             IF \E n \in 1..Len(result.ret.errors) : result.ret.errors[n].kind = "locked"
             THEN "LockedFieldError"
             ELSE IF result.ret.fatal THEN "FatalCommandLineOptionError"
             ELSE "Error in command-line options")
  ELSE IF DOMAIN st.newSettings.v # {}
  THEN Ended(result.settings,
             ManagerSetTransient(h, versions, st.transient,
                                 O([application |-> O([isFirstRun |-> B(FALSE)])])).settings,
             result.ret, "")
  ELSE Ended(result.settings, st.transient, result.ret, "")

\* After the loop
AfterLoop(h, versions, userS, st) ==
  IF st.error # "" THEN Ended(userS, st.transient, Undef, st.error)
  ELSE AfterSet(h, versions, st, ManagerSet(h, versions, userS, st.newSettings, Undef))

\* updateFromCommandLine(settings, commandLineArgs)
updateFromCommandLine(h, versions, lockedS, transientS, userS, profileS, commandLineArgs) ==
  IF Len(commandLineArgs) = 0 THEN Ended(userS, transientS, Undef, "")
  ELSE AfterLoop(h, versions, userS,
                 ArgumentLoop(h, versions, lockedS, userS, profileS, commandLineArgs, 1,
                              LoopState(TRUE, EmptyObject, transientS, "")))

UpdateFromCommandLine(commandLineArgs) ==
  /\ pc = "ready"
  /\ \E r \in {updateFromCommandLine(host, k8sVersions, locked, transient, user,
                                     profileDefaults, commandLineArgs)} :
       /\ user' = r.user
       /\ transient' = r.transient
       /\ last' = Called("updateFromCommandLine", [k |-> "args", v |-> commandLineArgs],
                         Undef, r.ret, r.error)
  /\ pc' = "running"
  /\ UNCHANGED <<defaults, host, k8sVersions, locked, profileDefaults, disk>>

CommandLineNext ==
  \/ LoadTransient(EmptyObject)
  \/ LoadDeploymentProfiles
  \/ LoadUser
  \/ \E commandLineArgs \in CommandLines : UpdateFromCommandLine(commandLineArgs)

CommandLineSpec == Init /\ [][CommandLineNext]_vars

\* An argument that names a setting or no-modal-dialogs, and one that names
\* nothing the settings hold.
Recognized(arg) ==
  arg.dashes /\ (arg.field = <<"no-modal-dialogs">> \/ arg.field \in LeafPaths(defaultSettings))
Unrecognized(arg) ==
  ~arg.dashes \/ (arg.field # <<"no-modal-dialogs">> /\ arg.field \notin AllPaths(defaultSettings))

\* C20: with the User layer loaded, a command line of unrecognized arguments
\* only, with '--' or without, is skipped whole: nothing is thrown and no
\* layer changes; an unrecognized argument right after a recognized option
\* that carries its value makes the call throw.
UnrecognizedSkippedUntilRecognized ==
  [][(last'.op = "updateFromCommandLine" /\ user # Undef) =>
       LET commandLineArgs == last'.arg.v IN
       /\ (\A i \in 1..Len(commandLineArgs) : Unrecognized(commandLineArgs[i])) =>
            /\ last'.error = ""
            /\ user' = user
            /\ transient' = transient
       /\ ( /\ Len(commandLineArgs) >= 2
            /\ Recognized(commandLineArgs[1])
            /\ commandLineArgs[1].equal \/ commandLineArgs[1].field = <<"no-modal-dialogs">>
            /\ Unrecognized(commandLineArgs[2]) ) => last'.error # ""]_vars

----------------------------------------------------------------------------
\* Reads of subtrees: after the load sequence, lists of image patterns are
\* written and SettingsManager.get reads leaves, lists and subtrees.

\* The keys read: those of ReadKeys, and the subtrees above them.
ReadPaths ==
  ReadKeys \cup {<<"kubernetes">>, <<"containerEngine">>, <<"containerEngine", "allowedImages">>}

ReadNext ==
  \/ LoadTransient(EmptyObject)
  \/ LoadDeploymentProfiles
  \/ LoadUser
  \/ \E q \in PatternLists :
       SetChanges(O([containerEngine |-> O([allowedImages |-> O([patterns |-> L(q)])])]))
  \/ SetChanges(ValidChange)
  \/ \E key \in ReadPaths : Get(key)

ReadSpec == Init /\ [][ReadNext]_vars

\* The value a tree holds at a path below it, the tree itself at the empty
\* path.
At(t, q) == IF q = <<>> THEN t ELSE lodashGet(t, q)

\* The leaves at or below the path read, in any layer that defines it.
LeavesBelow(results) ==
  UNION {LeafPaths(results[i]) : i \in {j \in 1..Len(results) : results[j] # Undef}}

\* C21: what SettingsManager.get(p) returns holds, at every leaf q at or
\* below p, the value of the highest-priority layer that defines q; a list
\* is returned as that layer's list.
GetGivesHighestLayerAtEveryLeaf ==
  last.op = "get" =>
    \A q \in LeavesBelow(LayerResults(locked, transient, user, profileDefaults, last.arg.path)) :
      LET expected ==
            FirstDefined(LayerResults(locked, transient, user, profileDefaults, last.arg.path \o q))
      IN expected.k # "obj" => At(last.ret, q) = expected


\* C22: once loadUser() has completed, with a settings file or without one,
\* set(key, value) and set(changes) do not throw 'Cannot set user settings
\* before loading', and a proposal that passes validation is stored in the
\* User layer.
WritesAcceptedAfterLoadUser ==
  [][(pc = "ready" /\ last'.op \in {"set", "setChanges"}) =>
       /\ last'.error # NotLoaded
       /\ (last'.arg = ValidChange /\ last'.error = "") =>
            UserGet(user', <<"kubernetes", "enabled">>) = B(FALSE)]_vars

----------------------------------------------------------------------------
\* Documents of older layouts: a stored document holds any subset of the
\* fields below, at any version up to the current one, and is loaded, saved
\* and loaded again.

NoproxyPath == <<"experimental", "virtualMachine", "proxy", "noproxy">>

\* Fields of older layouts and one that never moved, each with a value.
OldFields ==
  << <<<<"kubernetes", "suppressSudo">>, B(TRUE)>>,
     <<<<"debug">>, B(TRUE)>>,
     <<<<"telemetry">>, B(FALSE)>>,
     <<<<"kubernetes", "memoryInGB">>, N(4)>>,
     <<<<"kubernetes", "enabled">>, B(TRUE)>>,
     <<<<"extensions">>,
       O([image \in {"ext:1.0", "plain", "off:2"} |-> B(image # "off:2")])>>,
     <<NoproxyPath, L(<<" a ", " ", "b">>)>> >>

\* The document of a version that holds the fields chosen.
RECURSIVE WithFields(_, _, _)
WithFields(document, chosen, i) ==
  IF i > Len(OldFields) THEN document
  ELSE WithFields(IF i \in chosen
                  THEN lodashSet(document, OldFields[i][1], OldFields[i][2])
                  ELSE document,
                  chosen, i + 1)

OldDocuments ==
  { WithFields(O([version |-> N(version)]), chosen, 1) :
      version \in 0..CURRENT_SETTINGS_VERSION, chosen \in SUBSET (1..Len(OldFields)) }

MigrateInit ==
  /\ defaults = defaultSettings
  /\ host = MacHost
  /\ k8sVersions = {}
  /\ locked = EmptyObject
  /\ profileDefaults = EmptyObject
  /\ disk \in OldDocuments
  /\ transient = defaultTransientSettings
  /\ user = Undef
  /\ pc = "constructed"
  /\ last = Called("new", Undef, Undef, Undef, "")

MigrateNext ==
  \/ FileLoad
  \/ FileSave
  \/ FileRestart

MigrateSpec == MigrateInit /\ [][MigrateNext]_vars

\* The old-layout keys of step 4 with the path each moves to; the first has
\* its boolean inverted.
MovedInStep4 ==
  { <<<<"kubernetes", "suppressSudo">>, <<"application", "adminAccess">>>>,
    <<<<"debug">>, <<"application", "debug">>>>,
    <<<<"pathManagementStrategy">>, <<"application", "pathManagementStrategy">>>>,
    <<<<"telemetry">>, <<"application", "telemetry", "enabled">>>>,
    <<<<"updater">>, <<"application", "updater", "enabled">>>>,
    <<<<"kubernetes", "memoryInGB">>, <<"virtualMachine", "memoryInGB">>>>,
    <<<<"kubernetes", "numberCPUs">>, <<"virtualMachine", "numberCPUs">>>>,
    <<<<"kubernetes", "hostResolver">>, <<"virtualMachine", "hostResolver">>>> }

\* C23: after load() of a document of version 4 or lower, every old-layout
\* key the document held is found at its new path, kubernetes.suppressSudo
\* inverted and the others with their value, and no old key is left.
OldLayoutKeysMoved ==
  [][(last'.op = "load" /\ Prop(disk, "version").v <= 4) =>
       /\ last'.error = ""
       /\ \A move \in MovedInStep4 :
            lodashHas(disk, move[1]) =>
              /\ ~lodashHas(user', move[1])
              /\ lodashGet(user', move[2]) =
                   IF move[1] = <<"kubernetes", "suppressSudo">>
                   THEN B(~lodashGet(disk, move[1]).v)
                   ELSE lodashGet(disk, move[1])]_vars


\* The mapping from image to tag the extensions of a document amount to:
\* the entries recorded true, the tag 'latest' where the key had none.
InstalledExtensions ==
  O([name \in {"ext", "plain"} |-> S(IF name = "ext" THEN "1.0" ELSE "latest")])

\* C24: after load() of a document of version 6 or lower that records
\* extensions under the top-level key, they are recorded under
\* application.extensions.installed by image with the tag as value, without
\* the entries recorded false, and no top-level extensions key is left.
ExtensionsRekeyedAndMoved ==
  [][(last'.op = "load" /\ Prop(disk, "version").v <= 6 /\ lodashHas(disk, <<"extensions">>)
        /\ last'.error = "") =>
       /\ lodashGet(user', <<"application", "extensions", "installed">>) = InstalledExtensions
       /\ ~lodashHas(user', <<"extensions">>)]_vars

\* The string a trimmed entry is, written out for the entries stored.
Trimmed(entry) == IF entry = " a " THEN "a" ELSE IF entry = " " THEN "" ELSE entry

\* C25: after load() of a document of version 9 or lower that holds
\* experimental.virtualMachine.proxy.noproxy, the list holds the stored
\* entries trimmed, in their order, without the empty ones.
NoproxyTrimmedAndFiltered ==
  [][(last'.op = "load" /\ Prop(disk, "version").v <= 9 /\ lodashHas(disk, NoproxyPath)
        /\ last'.error = "") =>
       lodashGet(user', NoproxyPath) =
         L(SelectSeq([i \in 1..Len(lodashGet(disk, NoproxyPath).v) |->
                        Trimmed(lodashGet(disk, NoproxyPath).v[i])],
                     LAMBDA entry : entry # ""))]_vars

\* A subtree that holds no key, somewhere in the tree.
RECURSIVE HasEmptySubtree(_)
HasEmptySubtree(t) ==
  /\ t.k = "obj"
  /\ \E key \in DOMAIN t.v : t.v[key] = EmptyObject \/ HasEmptySubtree(t.v[key])

\* C26: load() of a document of any version up to the current one, holding
\* any subset of the fields, does not throw, and a parent a migration step
\* emptied is not left in the document.
MigrationOfPartialDocumentReturns ==
  [][last'.op = "load" =>
       /\ last'.error = ""
       /\ ~HasEmptySubtree(O(Del(user'.v, {"extensions"})))]_vars

----------------------------------------------------------------------------
\* The virtual machine settings on macOS: from the defaults (a settings file
\* that holds its version alone), merges propose the VM type, the mount type
\* and Rosetta, alone and together.

RosettaPath == <<"experimental", "virtualMachine", "useRosetta">>

\* The tree with the value at the path, or the tree as it is for no value.
Proposing(t, path, value) == IF value = Undef THEN t ELSE lodashSet(t, path, value)

VMProposals ==
  { Proposing(Proposing(Proposing(EmptyObject, VMTypePath, type), MountTypePath, mount),
              RosettaPath, rosetta) :
      type \in {Undef, S(VMTypeQEMU), S(VMTypeVZ)},
      mount \in {Undef, S(MountTypeNINEP), S(MountTypeREVERSE_SSHFS), S(MountTypeVIRTIOFS)},
      rosetta \in {Undef, B(TRUE), B(FALSE)} }

VMInit ==
  /\ defaults = defaultSettings
  /\ host = MacHost
  /\ k8sVersions = {}
  /\ locked = EmptyObject
  /\ profileDefaults = EmptyObject
  /\ disk = O([version |-> N(CURRENT_SETTINGS_VERSION)])
  /\ transient = defaultTransientSettings
  /\ user = Undef
  /\ pc = "constructed"
  /\ last = Called("new", Undef, Undef, Undef, "")

VMNext ==
  \/ FileLoad
  \/ \E changes \in VMProposals : FileMerge(changes)

VMSpec == VMInit /\ [][VMNext]_vars

\* The value in effect at a path: the User layer's over the defaults.
Effective(path) == lodashGet(Current(user), path)

\* C27: in every state reached from the defaults by merges on macOS,
\* useRosetta is true only while the VM type is vz.
RosettaOnlyWithVZ ==
  Effective(RosettaPath) = B(TRUE) => Effective(VMTypePath) = S(VMTypeVZ)

\* C28: in every state reached from the defaults by merges on macOS, the VM
\* type and the mount type in effect are neither vz with 9p nor qemu with
\* virtiofs.
VMTypeAndMountTypeAgree ==
  /\ ~(Effective(VMTypePath) = S(VMTypeVZ) /\ Effective(MountTypePath) = S(MountTypeNINEP))
  /\ ~(Effective(VMTypePath) = S(VMTypeQEMU) /\ Effective(MountTypePath) = S(MountTypeVIRTIOFS))

\* A merge proposed vz together with 9p and was rejected.
VZWithNinePProposedTogether ==
  /\ last.op = "merge"
  /\ lodashGet(last.arg, VMTypePath) = S(VMTypeVZ)
  /\ lodashGet(last.arg, MountTypePath) = S(MountTypeNINEP)
  /\ ReturnedErrors(last)
  /\ Effective(VMTypePath) = S(VMTypeQEMU)

----------------------------------------------------------------------------
\* The first run: the running application may write the settings file with
\* SettingsLayerUser.save() and read it again with load() before it hands
\* its arguments to updateFromCommandLine.

SaveUser ==
  /\ pc = "ready"
  /\ disk' = UserSave(user)
  /\ last' = Called("save", Undef, Undef, Undef, "")
  /\ UNCHANGED <<defaults, host, k8sVersions, locked, profileDefaults, transient, user, pc>>

\* load() called again by the running application
ReloadUser ==
  /\ pc = "ready"
  /\ \E r \in {UserLoad(disk, transient)} :
       /\ user' = r.user
       /\ transient' = r.transient
       /\ last' = Called("loadUser", Undef, Undef, Undef, r.error)
  /\ UNCHANGED <<defaults, host, k8sVersions, locked, profileDefaults, disk, pc>>

FirstRunNext ==
  \/ LoadTransient(EmptyObject)
  \/ LoadDeploymentProfiles
  \/ LoadUser
  \/ SaveUser
  \/ ReloadUser
  \/ \E commandLineArgs \in CommandLines : UpdateFromCommandLine(commandLineArgs)

FirstRunSpec == Init /\ [][FirstRunNext]_vars

FirstRunPath == <<"application", "isFirstRun">>

\* C29: when updateFromCommandLine returns without an error and an argument
\* named a user setting, application.isFirstRun of the Transient layer is
\* false afterwards, whatever it was before.
CommandLineSettingEndsFirstRun ==
  [][( /\ last'.op = "updateFromCommandLine"
       /\ last'.error = ""
       /\ \E i \in 1..Len(last'.arg.v) :
            last'.arg.v[i].dashes /\ last'.arg.v[i].field \in LeafPaths(defaultSettings) ) =>
       TransientGet(transient', FirstRunPath) = B(FALSE)]_vars


----------------------------------------------------------------------------
\* The modified flag of a merge against what the merge did to the layer.

\* A merge of the User layer or of the Transient layer that returned a
\* result without errors.
MergedWithoutErrors(call) ==
  /\ call.op \in {"setChanges", "setTransient"}
  /\ call.error = ""
  /\ "errors" \in DOMAIN call.ret
  /\ call.ret.errors = <<>>

\* C30: for a User.merge or Transient.merge that returns no errors, modified
\* is true exactly when the layer's effective settings after the merge
\* differ from those before it, open boolean mappings whose proposal omits
\* existing keys included.
ModifiedExactlyWhenSettingsChange ==
  [][MergedWithoutErrors(last') =>
       (last'.ret.modified <=>
          (Current(user') # Current(user) \/ transient' # transient))]_vars

====
